---- MODULE Spec2Model ----
(***************************************************************************)
(* A model of illume (skeeto/illume): the directive interpreter            *)
(* (ChatState.Load / LoadProfile), the conversation Builder, the           *)
(* interpolator and the request assembler of query().                      *)
(*                                                                         *)
(* Text is modelled by TLA+ strings, handled with Len, SubSeq and \o, so   *)
(* that cut, TrimSpace, HasPrefix and the other string conversions are     *)
(* computed character by character as the Go code computes them.           *)
(***************************************************************************)
EXTENDS Naturals, Sequences, FiniteSets, TLC

(***************************************************************************)
(* Strings                                                                 *)
(***************************************************************************)

\* s[i-1] of the Go code (TLA+ strings are indexed from 1)
At(s, i) == SubSeq(s, i, i)

\* s[i:] with a 1-based i
From(s, i) == SubSeq(s, i, Len(s))

\* bytes.IndexByte: the 1-based index of the first b in s, 0 when absent
IndexByte(s, b) ==
  LET I == {i \in 1..Len(s) : At(s, i) = b}
  IN  IF I = {} THEN 0 ELSE CHOOSE i \in I : \A j \in I : i <= j

cut(s, b) ==
  LET i == IndexByte(s, b)
  IN  IF i = 0
      THEN [pre |-> s, post |-> "", ok |-> FALSE]
      ELSE [pre |-> SubSeq(s, 1, i - 1), post |-> From(s, i + 1), ok |-> TRUE]

HasPrefix(s, p) == Len(s) >= Len(p) /\ SubSeq(s, 1, Len(p)) = p

HasSuffix(s, p) == Len(s) >= Len(p) /\ From(s, Len(s) - Len(p) + 1) = p

ContainsAny(s, chars) == \E i \in 1..Len(s) : At(s, i) \in chars

\* strings.Trim(s, cutset): cutset is given as a set of characters
Trim(s, cutset) ==
  LET K == {i \in 1..Len(s) : At(s, i) \notin cutset}
  IN  IF K = {} THEN ""
      ELSE SubSeq(s, CHOOSE i \in K : \A j \in K : i <= j,
                     CHOOSE i \in K : \A j \in K : i >= j)

\* the ASCII white space of unicode.IsSpace
Space == {" ", "\t", "\n", "\r", "\f"}

TrimSpace(s) == Trim(s, Space)

Digits == {"0", "1", "2", "3", "4", "5", "6", "7", "8", "9"}

\* fmt's %d of a line number or a status code
RECURSIVE Itoa(_)
Itoa(n) ==
  LET d == SubSeq("0123456789", (n % 10) + 1, (n % 10) + 1)
  IN  IF n < 10 THEN d ELSE Itoa(n \div 10) \o d


(***************************************************************************)
(* encoding/json, as far as the interpreter uses it: whether a text is one *)
(* JSON value (json.Unmarshal's error), and the Go value it decodes to.    *)
(* A decoded value is [kind, val]: a string carries its text, any other    *)
(* kind carries the JSON text it was read from.  The model's inputs are    *)
(* written in the form json.Encoder writes back (no insignificant white    *)
(* space, integers without exponent), the domain on which marshal below    *)
(* is defined.                                                             *)
(***************************************************************************)

JsonWs == {" ", "\t", "\n", "\r"}

HexDigits == Digits \cup {"a", "b", "c", "d", "e", "f", "A", "B", "C", "D", "E", "F"}

RECURSIVE SkipWs(_, _)
SkipWs(s, i) == IF i <= Len(s) /\ At(s, i) \in JsonWs THEN SkipWs(s, i + 1) ELSE i

RECURSIVE SkipDigits(_, _)
SkipDigits(s, i) == IF i <= Len(s) /\ At(s, i) \in Digits THEN SkipDigits(s, i + 1) ELSE i

\* the index after the string literal whose opening quote is at i - 1, or 0
RECURSIVE ScanString(_, _)
ScanString(s, i) ==
  IF i > Len(s) THEN 0
  ELSE IF At(s, i) = "\"" THEN i + 1
  ELSE IF At(s, i) \in {"\n", "\r", "\t", "\f"} THEN 0
  ELSE IF At(s, i) = "\\"
       THEN IF i + 1 <= Len(s) /\ At(s, i + 1) \in {"\"", "\\", "/", "b", "f", "n", "r", "t"}
            THEN ScanString(s, i + 2)
            ELSE IF /\ i + 5 <= Len(s)
                    /\ At(s, i + 1) = "u"
                    /\ \A k \in 2..5 : At(s, i + k) \in HexDigits
                 THEN ScanString(s, i + 6)
                 ELSE 0
  ELSE ScanString(s, i + 1)

\* the index after the number that starts at i, or 0
ScanNumber(s, i) ==
  LET i1 == IF i <= Len(s) /\ At(s, i) = "-" THEN i + 1 ELSE i
      i2 == IF i1 > Len(s) \/ At(s, i1) \notin Digits THEN 0
            ELSE IF At(s, i1) = "0" THEN i1 + 1 ELSE SkipDigits(s, i1)
      i3 == IF i2 = 0 THEN 0
            ELSE IF i2 <= Len(s) /\ At(s, i2) = "."
                 THEN IF SkipDigits(s, i2 + 1) = i2 + 1 THEN 0 ELSE SkipDigits(s, i2 + 1)
                 ELSE i2
      e1 == IF i3 # 0 /\ i3 + 1 <= Len(s) /\ At(s, i3 + 1) \in {"+", "-"} THEN i3 + 2 ELSE i3 + 1
  IN  IF i3 = 0 THEN 0
      ELSE IF i3 <= Len(s) /\ At(s, i3) \in {"e", "E"}
           THEN IF SkipDigits(s, e1) = e1 THEN 0 ELSE SkipDigits(s, e1)
           ELSE i3

\* the index after the JSON value that starts at i (white space skipped), or 0
RECURSIVE ScanValue(_, _)
RECURSIVE ScanElements(_, _)
RECURSIVE ScanMembers(_, _)
ScanValue(s, i0) ==
  LET i == SkipWs(s, i0)
      c == IF i <= Len(s) THEN At(s, i) ELSE ""
  IN  IF c = "" THEN 0
      ELSE IF c = "\"" THEN ScanString(s, i + 1)
      ELSE IF c \in Digits \cup {"-"} THEN ScanNumber(s, i)
      ELSE IF c = "t" THEN (IF HasPrefix(From(s, i), "true") THEN i + 4 ELSE 0)
      ELSE IF c = "f" THEN (IF HasPrefix(From(s, i), "false") THEN i + 5 ELSE 0)
      ELSE IF c = "n" THEN (IF HasPrefix(From(s, i), "null") THEN i + 4 ELSE 0)
      ELSE IF c = "["
           THEN IF SkipWs(s, i + 1) <= Len(s) /\ At(s, SkipWs(s, i + 1)) = "]"
                THEN SkipWs(s, i + 1) + 1
                ELSE ScanElements(s, i + 1)
      ELSE IF c = "{"
           THEN IF SkipWs(s, i + 1) <= Len(s) /\ At(s, SkipWs(s, i + 1)) = "}"
                THEN SkipWs(s, i + 1) + 1
                ELSE ScanMembers(s, i + 1)
      ELSE 0

\* the elements of an array, the first starting at i; the index after "]"
ScanElements(s, i) ==
  LET j == ScanValue(s, i)
      k == IF j = 0 THEN 0 ELSE SkipWs(s, j)
  IN  IF k = 0 \/ k > Len(s) THEN 0
      ELSE IF At(s, k) = "]" THEN k + 1
      ELSE IF At(s, k) = "," THEN ScanElements(s, k + 1)
      ELSE 0

\* the members of an object, the first starting at i; the index after "}"
ScanMembers(s, i) ==
  LET q == SkipWs(s, i)
      j == IF q <= Len(s) /\ At(s, q) = "\"" THEN ScanString(s, q + 1) ELSE 0
      c == IF j = 0 THEN 0 ELSE SkipWs(s, j)
      v == IF c = 0 \/ c > Len(s) \/ At(s, c) # ":" THEN 0 ELSE ScanValue(s, c + 1)
      k == IF v = 0 THEN 0 ELSE SkipWs(s, v)
  IN  IF k = 0 \/ k > Len(s) THEN 0
      ELSE IF At(s, k) = "}" THEN k + 1
      ELSE IF At(s, k) = "," THEN ScanMembers(s, k + 1)
      ELSE 0

\* json.Unmarshal(s, &value) returns no error
JsonValid(s) ==
  LET j == ScanValue(s, 1)
  IN  j # 0 /\ SkipWs(s, j) = Len(s) + 1

\* the text of a JSON string literal's interior, escapes decoded
RECURSIVE Unquote(_)
Unquote(s) ==
  IF s = "" THEN ""
  ELSE IF At(s, 1) # "\\" THEN At(s, 1) \o Unquote(From(s, 2))
  ELSE (CASE At(s, 2) = "\"" -> "\""
          [] At(s, 2) = "\\" -> "\\"
          [] At(s, 2) = "/" -> "/"
          [] At(s, 2) = "n" -> "\n"
          [] At(s, 2) = "r" -> "\r"
          [] At(s, 2) = "t" -> "\t"
          [] At(s, 2) = "f" -> "\f") \o Unquote(From(s, 3))

\* the Go value json.Unmarshal stores in an interface{} for a valid text
JsonValue(s) ==
  LET t == Trim(s, JsonWs)
      c == At(t, 1)
  IN  IF c = "\"" THEN [kind |-> "string", val |-> Unquote(SubSeq(t, 2, Len(t) - 1))]
      ELSE IF c = "[" THEN [kind |-> "array", val |-> t]
      ELSE IF c = "{" THEN [kind |-> "object", val |-> t]
      ELSE IF c \in {"t", "f"} THEN [kind |-> "bool", val |-> t]
      ELSE IF c = "n" THEN [kind |-> "null", val |-> t]
      ELSE [kind |-> "number", val |-> t]

GoString(s) == [kind |-> "string", val |-> s]

\* json.Encoder.Encode of a value that is not a string: the JSON text and the
\* line feed Encode ends every value with
marshal(v) ==
  CASE v.kind \in {"number", "bool", "null", "array", "object"} -> v.val \o "\n"


(***************************************************************************)
(* json.Unmarshal(line, &r) of the stream loop: the fields of Response.    *)
(* A text that is not valid JSON leaves r at its zero value; a member of   *)
(* another type than the field leaves the field at its zero value.         *)
(***************************************************************************)

Upper == <<"A", "B", "C", "D", "E", "F", "G", "H", "I", "J", "K", "L", "M",
           "N", "O", "P", "Q", "R", "S", "T", "U", "V", "W", "X", "Y", "Z">>

LowerOf == <<"a", "b", "c", "d", "e", "f", "g", "h", "i", "j", "k", "l", "m",
             "n", "o", "p", "q", "r", "s", "t", "u", "v", "w", "x", "y", "z">>

\* the key of a member as encoding/json matches it with a field name
RECURSIVE Lower(_)
Lower(s) ==
  IF s = "" THEN ""
  ELSE (IF \E i \in 1..26 : Upper[i] = At(s, 1)
        THEN LowerOf[CHOOSE i \in 1..26 : Upper[i] = At(s, 1)]
        ELSE At(s, 1)) \o Lower(From(s, 2))

\* the index after the number, true, false or null that starts at i
RECURSIVE SkipLiteral(_, _)
SkipLiteral(s, i) ==
  IF i <= Len(s) /\ At(s, i) \notin JsonWs \cup {",", "}", "]"}
  THEN SkipLiteral(s, i + 1) ELSE i

\* The tokens of a valid JSON text from index i on: [t, v] with t one of the
\* six structural characters, "str" (v the decoded string) or "lit" (v the
\* text of a number, true, false or null)
RECURSIVE Tokens(_, _)
Tokens(s, i) ==
  LET q == SkipWs(s, i)
  IN  IF q > Len(s) THEN <<>>
      ELSE IF At(s, q) \in {"{", "}", "[", "]", ":", ","}
      THEN <<[t |-> At(s, q), v |-> ""]>> \o Tokens(s, q + 1)
      ELSE IF At(s, q) = "\""
      THEN <<[t |-> "str", v |-> Unquote(SubSeq(s, q + 1, ScanString(s, q + 1) - 2))]>>
           \o Tokens(s, ScanString(s, q + 1))
      ELSE <<[t |-> "lit", v |-> SubSeq(s, q, SkipLiteral(s, q) - 1)]>>
           \o Tokens(s, SkipLiteral(s, q))

\* The index of the value of the member key of the object whose members are
\* read from token j on, at nesting depth 1; found when there is none.  The
\* last of several members of that name wins.
RECURSIVE FindKey(_, _, _, _, _)
FindKey(toks, j, depth, key, found) ==
  IF j > Len(toks) THEN found
  ELSE IF toks[j].t \in {"{", "["} THEN FindKey(toks, j + 1, depth + 1, key, found)
  ELSE IF toks[j].t \in {"}", "]"}
  THEN IF depth = 1 THEN found ELSE FindKey(toks, j + 1, depth - 1, key, found)
  ELSE IF depth = 1 /\ toks[j].t = "str" /\ j < Len(toks) /\ toks[j + 1].t = ":"
  THEN FindKey(toks, j + 2, depth, key, IF Lower(toks[j].v) = key THEN j + 2 ELSE found)
  ELSE FindKey(toks, j + 1, depth, key, found)

\* the index of the value of member key of the object at token i, 0 when token
\* i starts no object or the object has no such member
Member(toks, i, key) ==
  IF i = 0 \/ i > Len(toks) \/ toks[i].t # "{" THEN 0 ELSE FindKey(toks, i + 1, 1, key, 0)

\* the index of the first element of the array at token i, or 0
First(toks, i) ==
  IF i = 0 \/ toks[i].t # "[" \/ i = Len(toks) \/ toks[i + 1].t = "]" THEN 0 ELSE i + 1

\* a string field decoded from the value at token i
Str(toks, i) == IF i # 0 /\ toks[i].t = "str" THEN toks[i].v ELSE ""

\* The fields of Response, choice and delta being the token indices of
\* choices[0] and of the top-level delta.  Choices holds r.Choices[0] when
\* len(r.Choices) > 0.
ResponseFields(toks, choice, delta) ==
  [Content |-> Str(toks, Member(toks, 1, "content")),
   Choices |-> IF choice = 0 THEN <<>>
               ELSE <<[Text  |-> Str(toks, Member(toks, choice, "text")),
                       Delta |-> [Content |->
                                    Str(toks, Member(toks, Member(toks, choice, "delta"),
                                                     "content"))]]>>,
   Delta   |-> [Text     |-> Str(toks, Member(toks, delta, "text")),
                Thinking |-> Str(toks, Member(toks, delta, "thinking"))]]

Unmarshal(toks) ==
  ResponseFields(toks, First(toks, Member(toks, 1, "choices")), Member(toks, 1, "delta"))

\* a variant of the decoder that keeps what it read before a syntax error
DecodePartial(line) == Unmarshal(Tokens(line, 1))

\* Response after json.Unmarshal(line, &r), the error ignored: a line that is
\* not valid JSON leaves r zero
Decode(line) == Unmarshal(IF JsonValid(line) THEN Tokens(line, 1) ELSE <<>>)

(***************************************************************************)
(* The conversation Builder                                                *)
(***************************************************************************)

Message(role, content) == [Role |-> role, Content |-> content]

\* Builder{}
EmptyBuilder == [Messages |-> <<>>, Role |-> "", Content |-> ""]

BuilderAppend(b, line) == [b EXCEPT !.Content = @ \o line \o "\n"]

\* variants of Builder.New: one that keeps a segment with nothing in it, one
\* that files the segment under the role that follows it
BuilderNewKeepEmpty(b, role) ==
  [Messages |-> b.Messages \o
                <<Message(IF b.Role = "" THEN "system" ELSE b.Role,
                          Trim(b.Content, {"\r", "\n"}))>>,
   Role     |-> role,
   Content  |-> ""]

BuilderNewNextRole(b, role) ==
  LET content == Trim(b.Content, {"\r", "\n"})
  IN  [Messages |-> IF content # ""
                    THEN b.Messages \o
                         <<Message(IF role = "" THEN "system" ELSE role, content)>>
                    ELSE b.Messages,
       Role     |-> role,
       Content  |-> ""]

\* a variant of Builder.New that never leaves the list empty
BuilderNewBlank(b, role) ==
  LET content == Trim(b.Content, {"\r", "\n"})
  IN  [Messages |-> IF content # "" \/ b.Messages = <<>>
                    THEN b.Messages \o
                         <<Message(IF b.Role = "" THEN "system" ELSE b.Role, content)>>
                    ELSE b.Messages,
       Role     |-> role,
       Content  |-> ""]

\* a variant of Builder.New that keeps the message of the last segment only
BuilderNewLast(b, role) ==
  LET content == Trim(b.Content, {"\r", "\n"})
  IN  [Messages |-> IF content # ""
                    THEN <<Message(IF b.Role = "" THEN "system" ELSE b.Role, content)>>
                    ELSE b.Messages,
       Role     |-> role,
       Content  |-> ""]

\* Builder.New of illume.go: the builder after the call (the call returns
\* its Messages)
BuilderNew(b, role) ==
  LET content == Trim(b.Content, {"\r", "\n"})
  IN  [Messages |-> IF content # ""
                    THEN b.Messages \o
                         <<Message(IF b.Role = "" THEN "system" ELSE b.Role, content)>>
                    ELSE b.Messages,
       Role     |-> role,
       Content  |-> ""]

\* a variant of Builder.New that opens the tool role with the synthetic
\* message only after a segment with content
BuilderNewToolLazy(b, role) ==
  LET closed  == IF b.Role = "tool" THEN b.Content \o "</tool_response>" ELSE b.Content
      content == Trim(closed, {"\r", "\n"})
  IN  [Messages |-> IF content # ""
                    THEN b.Messages \o
                         <<Message(IF b.Role = "" THEN "system" ELSE b.Role, content)>> \o
                         (IF role = "tool" THEN <<Message("assistant", "")>> ELSE <<>>)
                    ELSE b.Messages,
       Role     |-> role,
       Content  |-> ""]

\* Builder.New of the revision with the tool role
BuilderNewTool(b, role) ==
  LET closed  == IF b.Role = "tool" THEN b.Content \o "</tool_response>" ELSE b.Content
      content == Trim(closed, {"\r", "\n"})
      kept    == IF content # ""
                 THEN b.Messages \o
                      <<Message(IF b.Role = "" THEN "system" ELSE b.Role, content)>>
                 ELSE b.Messages
  IN  [Messages |-> IF role = "tool" THEN kept \o <<Message("assistant", "")>> ELSE kept,
       Role     |-> role,
       Content  |-> ""]

(***************************************************************************)
(* The interpolator                                                        *)
(***************************************************************************)

\* the loop of interpolate: b is the buffer written so far.  The result is
\* [out, err], err = "" standing for a nil error.
RECURSIVE interpolateFrom(_, _, _)
interpolateFrom(s, vars, b) ==
  LET open  == cut(s, "{")
      b1    == b \o open.pre
      close == cut(open.post, "}")
      key   == close.pre
  IN  IF ~open.ok THEN [out |-> b1, err |-> ""]
      ELSE IF ~close.ok THEN [out |-> "", err |-> "unmatched '}'"]
      ELSE IF key \notin DOMAIN vars THEN [out |-> "", err |-> "missing key: " \o key]
      ELSE interpolateFrom(close.post, vars,
                           b1 \o (IF vars[key].kind = "string"
                                  THEN vars[key].val
                                  ELSE marshal(vars[key])))

\* a variant of interpolate that resolves the first placeholder only
interpolateFirst(s, vars) ==
  LET open  == cut(s, "{")
      close == cut(open.post, "}")
      key   == close.pre
  IN  IF ~open.ok THEN [out |-> s, err |-> ""]
      ELSE IF ~close.ok THEN [out |-> "", err |-> "unmatched '}'"]
      ELSE IF key \notin DOMAIN vars THEN [out |-> "", err |-> "missing key: " \o key]
      ELSE [out |-> open.pre \o vars[key].val \o close.post, err |-> ""]

\* a variant of interpolate that scans its own output once more
interpolateTwice(s, vars) ==
  LET r == interpolateFrom(s, vars, "")
  IN  IF r.err # "" THEN r ELSE interpolateFrom(r.out, vars, "")

interpolate(s, vars) == interpolateFrom(s, vars, "")

(***************************************************************************)
(* Exclusion tags                                                          *)
(***************************************************************************)

TagNone == 0
TagOpen == 1
TagClose == 2

\* a variant of tagmatch that knows the opening tag only
tagmatchOpen(s, tag) ==
  IF Len(s) = Len(tag) + 2 /\ s = "<" \o tag \o ">" THEN TagOpen ELSE TagNone

tagmatch(s, tag) ==
  IF Len(s) > 2 /\ At(s, 1) = "<" /\ At(s, Len(s)) = ">"
  THEN IF Len(s) = Len(tag) + 2
       THEN (IF SubSeq(s, 2, 1 + Len(tag)) = tag THEN TagOpen ELSE TagNone)
       ELSE IF Len(s) = Len(tag) + 3
            THEN (IF SubSeq(s, 3, 2 + Len(tag)) = tag /\ At(s, 2) = "/"
                  THEN TagClose ELSE TagNone)
            ELSE TagNone
  ELSE TagNone


(***************************************************************************)
(* Maps (Go's map[string]T) as functions on a finite set of strings        *)
(***************************************************************************)

EmptyMap == [k \in {} |-> ""]

Put(m, k, v) == [x \in DOMAIN m \cup {k} |-> IF x = k THEN v ELSE m[x]]

Delete(m, k) == [x \in DOMAIN m \ {k} |-> m[x]]

(***************************************************************************)
(* The environment: the process environment, the built-in profile table    *)
(* and the files the run can read.                                         *)
(***************************************************************************)

VARIABLES
  environ,   \* os.Getenv: name -> value
  revision,  \* which revision of the program runs: "illume" (illume.go) or
             \* "tool" (the revision with the !tool role)
  txt,       \* the document read from standard input
  server,    \* what the HTTP server does with a request: [status, body,
             \* readerr]; status 0 is a transport failure that body names,
             \* readerr the error the body stream ends with ("" is none)
  state,     \* the ChatState of query
  stack,     \* the active calls of ChatState.Load, innermost last
  pc,        \* where query / main stands
  api,       \* query's api: the request URL under construction
  err,       \* the error query returns ("" is nil)
  strictapi, \* query's strictapi: the URL was given in quotes
  sent,      \* the HTTP requests handed to the client
  resp,      \* query after client.Do: open, the response body has not been
             \* closed; body, the part of it not read yet; nthinking and
             \* nevents, the counters of the stream loop
  stdout,    \* what has been written to standard output
  hist       \* history: keys, the body keys a depth-0 !:KEY directive was
             \* applied to; last, for each body key the depth of the last
             \* !:KEY directive applied to it; profiles, the names the
             \* !profile directives resolved, in order; api, whether an
             \* !api directive has assigned the URL

vars == <<environ, revision, txt, server, state, stack, pc, api, err, strictapi, sent, resp, stdout, hist>>

Getenv(name) == IF name \in DOMAIN environ THEN environ[name] ELSE ""

DefaultProfile == "llama.cpp"

\* the built-in table (the entries written in ASCII)
Profiles ==
  [p \in {"llama.cpp", "huggingface.co", "qwen3", "qwen3-think", "qwen3-instruct",
          "gemma-3", "gemini", "claude", "claude-extended", "openai",
          "fim:qwen", "fim:granite", "fim:mistral", "fim:codellama"} |->
    CASE p = "llama.cpp" ->
           << "!api http://localhost:8080/",
              "!:cache_prompt true",
              "!:stop [\"<|im_end|>\"]" >>
      [] p = "huggingface.co" ->
           << "!api https://api-inference.huggingface.co/models/{model}/v1",
              "!>authorization Bearer $HF_TOKEN",
              "!>x-use-cache false",
              "!:model meta-llama/Llama-3.3-70B-Instruct" >>
      [] p = "qwen3" ->
           << "/no_think",
              "!:temperature 0.7",
              "!:min_p 0.0",
              "!:top_p 0.8",
              "!:top_k 20",
              "!exclude think" >>
      [] p = "qwen3-think" ->
           << "!:temperature 0.6",
              "!:min_p 0.0",
              "!:top_p 0.95",
              "!:top_k 20",
              "!:max_tokens 16384",
              "!exclude think" >>
      [] p = "qwen3-instruct" ->
           << "!:temperature 0.7",
              "!:min_p 0.0",
              "!:top_p 0.8",
              "!:top_k 20",
              "!:max_tokens 16384" >>
      [] p = "gemma-3" ->
           << "!:temperature 1.0",
              "!:top_k 64",
              "!:top_p 0.95",
              "!:min_p 0.01",
              "!:repeat_penalty 1.0" >>
      [] p = "gemini" ->
           << "!api https://generativelanguage.googleapis.com/v1beta",
              "!>authorization Bearer $GEMINI_API_KEY",
              "!:model gemini-2.5-pro-exp-03-25",
              "!:max_tokens 10000" >>
      [] p = "claude" ->
           << "!api \"https://api.anthropic.com/v1/messages\"",
              "!>anthropic-version 2023-06-01",
              "!>x-api-key $ANTHROPIC_API_KEY",
              "!:model claude-opus-4-0",
              "!:max_tokens 10000" >>
      [] p = "claude-extended" ->
           << "!profile claude",
              "!:max_tokens 20000",
              "!:thinking {\"type\": \"enabled\", \"budget_tokens\": 10000}",
              "!exclude think" >>
      [] p = "openai" ->
           << "!api https://api.openai.com/v1",
              "!>authorization Bearer $OPENAI_API_KEY",
              "!:model gpt-4.1-mini",
              "!:max_tokens",
              "!:max_completion_tokens 10000" >>
      [] p = "fim:qwen" ->
           << "!infill <|fim_prefix|>{prefix}<|fim_suffix|>{suffix}<|fim_middle|>" >>
      [] p = "fim:granite" ->
           << "!infill <fim_prefix>{prefix}<fim_suffix>{suffix}<fim_middle>" >>
      [] p = "fim:mistral" ->
           << "!infill [SUFFIX]{suffix}[PREFIX]{prefix}" >>
      [] p = "fim:codellama" ->
           << "!infill  <PRE> {prefix} <SUF>{suffix} <MID>",
              "!:stop [\"<EOT>\"]" >> ]

\* the directory of the running program (filepath.Dir(os.Executable()))
ExeDir == "/opt/illume"

\* The files of the run: path -> contents.  Relative paths are in the
\* working directory.
Files ==
  [f \in {"/opt/illume/.profile", "/opt/illume/site.profile", "conf/deep", "conf/dry",
          "conf/outer", "conf/bad", "conf/loop", "conf/ping", "conf/pong", "conf/ex",
          "notes.txt"} |->
    CASE f = "/opt/illume/.profile"     -> "!:model m0\n"
      [] f = "/opt/illume/site.profile" -> "!api http://site/v1\n!:model m2\n!end\n!:model m3\n"
      [] f = "conf/deep"                -> "!:seed 1\n!profile site\n!:seed 2\n"
      [] f = "conf/dry"                 -> "!debug\n"
      [] f = "conf/ex"                  -> "!:seed 6\n!exclude t\n<t>\n!:seed 7\n"
      [] f = "conf/loop"                -> "!:seed 4\n!profile conf/loop\n"
      [] f = "conf/ping"                -> "!profile conf/pong\n"
      [] f = "conf/pong"                -> "!:seed 5\n!profile conf/ping\n"
      [] f = "conf/outer"               -> "!:seed 1\n!profile conf/bad\n!:seed 2\n"
      [] f = "conf/bad"                 -> "!exclude t\n<t>\n!context\n</t>\n\n!context\n!:seed 3\n"
      [] f = "notes.txt"                -> "a\nb\n" ]

\* ioutil.ReadFile
ReadFile(path) ==
  IF path \in DOMAIN Files
  THEN [data |-> Files[path], err |-> ""]
  ELSE [data |-> "", err |-> "open " \o path \o ": no such file or directory"]

\* the lines of a built-in profile, each followed by a line feed
RECURSIVE JoinLines(_)
JoinLines(lines) ==
  IF lines = <<>> THEN "" ELSE Head(lines) \o "\n" \o JoinLines(Tail(lines))

\* The part of LoadProfile before its call of Load: the body of the profile,
\* or the error of the first attempt to read it.  (The revision with the
\* tool role does not search beside the program.)
ProfileBody(profile) ==
  IF profile \in DOMAIN Profiles
  THEN [data |-> JoinLines(Profiles[profile]), err |-> ""]
  ELSE LET buf    == ReadFile(profile)
           relbuf == ReadFile(ExeDir \o "/" \o profile \o ".profile")
       IN  IF buf.err = "" THEN buf
           ELSE IF revision = "tool" THEN buf
           ELSE IF ContainsAny(profile, {"/", "\\"}) THEN buf
           ELSE IF relbuf.err # "" THEN buf
           ELSE relbuf


(***************************************************************************)
(* os.ExpandEnv, strings.Fields                                            *)
(***************************************************************************)

Letters ==
  LET abc == "abcdefghijklmnopqrstuvwxyzABCDEFGHIJKLMNOPQRSTUVWXYZ"
  IN  {At(abc, i) : i \in 1..Len(abc)}

\* isAlphaNum of package os
AlphaNum == Letters \cup Digits \cup {"_"}

\* isShellSpecialVar of package os
ShellSpecial == Digits \cup {"*", "#", "$", "@", "!", "?", "-"}

RECURSIVE SkipAlphaNum(_, _)
SkipAlphaNum(s, i) ==
  IF i <= Len(s) /\ At(s, i) \in AlphaNum THEN SkipAlphaNum(s, i + 1) ELSE i

\* getShellName of package os, on the text after a "$": the name and the
\* number of characters it takes up
getShellName(s) ==
  LET close == IndexByte(s, "}")
      n     == SkipAlphaNum(s, 1) - 1
  IN  IF At(s, 1) = "{"
      THEN IF Len(s) > 2 /\ At(s, 2) \in ShellSpecial /\ At(s, 3) = "}"
           THEN [name |-> At(s, 2), w |-> 3]
           ELSE IF close = 0 THEN [name |-> "", w |-> 1]
           ELSE IF close = 2 THEN [name |-> "", w |-> 2]
           ELSE [name |-> SubSeq(s, 2, close - 1), w |-> close]
      ELSE IF At(s, 1) \in ShellSpecial THEN [name |-> At(s, 1), w |-> 1]
      ELSE [name |-> SubSeq(s, 1, n), w |-> n]

\* os.ExpandEnv
RECURSIVE ExpandEnv(_)
ExpandEnv(s) ==
  LET j  == IndexByte(s, "$")
      sh == getShellName(From(s, j + 1))
  IN  IF j = 0 \/ j = Len(s) THEN s
      ELSE SubSeq(s, 1, j - 1)
           \o (IF sh.name = "" THEN (IF sh.w > 0 THEN "" ELSE "$") ELSE Getenv(sh.name))
           \o ExpandEnv(From(s, j + 1 + sh.w))

\* strings.Fields
RECURSIVE Fields(_)
Fields(s) ==
  LET t == TrimSpace(s)
      W == {i \in 1..Len(t) : At(t, i) \in Space}
      e == IF W = {} THEN Len(t) + 1 ELSE CHOOSE i \in W : \A j \in W : i <= j
  IN  IF t = "" THEN <<>> ELSE <<SubSeq(t, 1, e - 1)>> \o Fields(From(t, e))

(***************************************************************************)
(* Embedded context: addfile, addcontext and the thread renderers          *)
(***************************************************************************)

\* The grave accent of addfile's fences.  SANY cannot read that character
\* in a string, so the model writes an apostrophe where the program writes
\* a grave accent.
Grave == "'"

RECURSIVE Repeat(_, _)
Repeat(c, n) == IF n = 0 THEN "" ELSE c \o Repeat(c, n - 1)

RECURSIVE SkipGrave(_, _)
SkipGrave(s, i) == IF i <= Len(s) /\ At(s, i) = Grave THEN SkipGrave(s, i + 1) ELSE i

\* the longest run of grave accents that starts a line of lines, at least max
RECURSIVE LongestFence(_, _)
LongestFence(lines, max) ==
  LET c == cut(lines, "\n")
      n == SkipGrave(c.pre, 1) - 1
  IN  IF Len(lines) = 0 THEN max
      ELSE LongestFence(c.post, IF n > max THEN n ELSE max)

MinFence == 2

\* addfile: the buffer after the call and the error
addfile(w, path, name) ==
  LET body  == ReadFile(path)
      fence == Repeat(Grave, LongestFence(body.data, MinFence) + 1)
  IN  IF body.err # "" THEN [w |-> w, err |-> body.err]
      ELSE [w   |-> w \o "**" \o Grave \o name \o Grave \o "**\n"
                      \o fence \o "\n" \o body.data \o fence \o "\n\n",
            err |-> ""]

\* addcontext with at most one argument after the command (a directory walk
\* with suffix filters is not part of the model's inputs)
addcontext(prompt, line) ==
  LET fields == Fields(line)
  IN  IF Len(fields) <= 1
      THEN [w |-> prompt, err |-> "!context: wrong number of fields"]
      ELSE addfile(prompt, fields[2], fields[2])


\* emitreddit and emitgithub, as far as Load depends on them: their errors.
\* The rendering of a thread that was read is outside the model, whose
\* inputs name no file that exists.
emitreddit(w, path, withcomments) ==
  LET body == ReadFile(path)
  IN  CASE body.err # "" -> [w |-> w, err |-> body.err]

emitgithub(w, paths) ==
  IF Len(paths) < 1
  THEN [w |-> w, err |-> "!github requires at least one argument"]
  ELSE LET body == ReadFile(paths[1])
       IN  CASE body.err # "" -> [w |-> w, err |-> body.err]

(***************************************************************************)
(* ChatState and one iteration of the loop of ChatState.Load               *)
(***************************************************************************)

TypeChat == 0
TypeCompletion == 1
TypeInfill == 2
TypeFim == 3

InvalidUrl == "http://invalid./"

NewChatState ==
  [Profile   |-> "",
   Api       |-> InvalidUrl,
   FimTmpl   |-> "",
   Prepend   |-> "",
   Exclude   |-> "",
   Builder   |-> EmptyBuilder,
   Data      |-> Put(EmptyMap, "max_tokens", [kind |-> "number", val |-> "2000"]),
   UserSet   |-> [k \in {} |-> FALSE],
   Headers   |-> Put(EmptyMap, "content-type", "application/json"),
   Tools     |-> <<>>,
   Type      |-> TypeChat,
   Debug     |-> FALSE,
   Stats     |-> FALSE,
   Excluding |-> FALSE]

\* a variant that stores every argument as text
BodyValueText(args) == GoString(args)

\* the value a !:KEY directive stores for a non-empty argument
BodyValue(args) == IF JsonValid(args) THEN JsonValue(args) ELSE GoString(args)

\* variants of the test that guards a hard-set key: one that takes effect
\* only below the first level of profiles, one that ignores the marker's value
ProtectedNested(s, key, depth) == depth > 1 /\ key \in DOMAIN s.UserSet /\ s.UserSet[key]

ProtectedWritten(s, key, depth) == depth > 0 /\ key \in DOMAIN s.UserSet

\* a variant of the test that guards only a key that is in the body
ProtectedPresent(s, key, depth) ==
  depth > 0 /\ key \in DOMAIN s.UserSet /\ s.UserSet[key] /\ key \in DOMAIN s.Data

\* whether a !:KEY directive at this depth is skipped ("do not override")
Protected(s, key, depth) == depth > 0 /\ key \in DOMAIN s.UserSet /\ s.UserSet[key]

\* a variant of the !:KEY branch that marks every written key as hard-set
SetBodyMarked(s, key, args0, depth) ==
  LET args == TrimSpace(args0)
  IN  IF Protected(s, key, depth) THEN s
      ELSE [s EXCEPT !.Data    = IF args = "" THEN Delete(@, key)
                                 ELSE Put(@, key, BodyValue(args)),
                     !.UserSet = Put(@, key, TRUE)]

\* the !:KEY branch of Load
SetBody(s, key, args0, depth) ==
  LET args == TrimSpace(args0)
  IN  IF Protected(s, key, depth) THEN s
      ELSE [s EXCEPT !.Data    = IF args = "" THEN Delete(@, key)
                                 ELSE Put(@, key, BodyValue(args)),
                     !.UserSet = Put(@, key, depth = 0)]

\* a variant of the !>KEY branch that keeps the value a header already has
SetHeaderFirst(s, key, args0) ==
  LET args == TrimSpace(args0)
  IN  [s EXCEPT !.Headers = IF key \in DOMAIN @ THEN @
                            ELSE IF args = "" THEN Delete(@, key)
                            ELSE Put(@, key, IF revision = "tool" THEN args
                                             ELSE ExpandEnv(args))]

\* the !>KEY branch of Load
SetHeader(s, key, args0) ==
  LET args == TrimSpace(args0)
  IN  [s EXCEPT !.Headers = IF args = "" THEN Delete(@, key)
                            ELSE Put(@, key, IF revision = "tool" THEN args
                                             ELSE ExpandEnv(args))]

\* a variant of the !api branch that resolves the placeholders at once
SetApiEager(s, args, depth) ==
  IF s.Api = InvalidUrl \/ depth = 0
  THEN [s EXCEPT !.Api = interpolate(TrimSpace(args), s.Data).out] ELSE s

\* the !api branch of Load
SetApi(s, args, depth) ==
  IF s.Api = InvalidUrl \/ depth = 0 THEN [s EXCEPT !.Api = TrimSpace(args)] ELSE s

\* Builder.New of the running revision
StateNew(b, role) ==
  IF revision = "tool" THEN BuilderNewTool(b, role) ELSE BuilderNew(b, role)

\* a variant of the !infill branch where a template given after the marker
\* turns generic infill into template FIM
InfillLate(s, args) ==
  IF args = ""
  THEN [s EXCEPT !.Type    = IF Len(s.FimTmpl) > 0 THEN TypeFim ELSE TypeInfill,
                 !.Builder = StateNew(@, "infill")]
  ELSE [s EXCEPT !.FimTmpl = args,
                 !.Type    = IF @ = TypeInfill THEN TypeFim ELSE @]

\* the !infill branch of Load
Infill(s, args) ==
  IF args = ""
  THEN [s EXCEPT !.Type    = IF Len(s.FimTmpl) > 0 THEN TypeFim ELSE TypeInfill,
                 !.Builder = StateNew(@, "infill")]
  ELSE [s EXCEPT !.FimTmpl = args]

\* the !prepend branch of Load
SetPrepend(s, args) ==
  [s EXCEPT !.Prepend = IF Len(args) > 1 /\ At(args, 1) = "\"" /\ JsonValid(args)
                        THEN JsonValue(args).val ELSE args]

\* a variant of the !debug branch that only the document itself can take
SetDebugTopLevel(s, depth) == IF depth = 0 THEN [s EXCEPT !.Debug = TRUE] ELSE s

\* the !debug branch of Load
SetDebug(s, depth) == [s EXCEPT !.Debug = TRUE]

\* a variant of the !begin branch that keeps the finalized messages
BeginKeepMessages(s) == [s EXCEPT !.Builder.Content = ""]

\* the !begin branch of Load: s.Builder = Builder{}
Begin(s) == [s EXCEPT !.Builder = EmptyBuilder]

\* a variant of the escape that removes both markers
UnescapeBoth(line) == From(line, 3)

\* the line of the escape branch: line[1:]
Unescape(line) == From(line, 2)

\* the !token branch of Load (revision with the tool role)
SetToken(s, args) ==
  LET token == TrimSpace(args)
  IN  [s EXCEPT !.Headers = IF token = "" THEN Delete(@, "authorization")
                            ELSE Put(@, "authorization", "Bearer " \o token)]

\* The branch of the loop of Load that a line takes: the exclusion filter of
\* illume.go, then the chain of comparisons on the command.
Branch(s, line) ==
  LET command == cut(line, " ").pre
      match   == tagmatch(line, s.Exclude)
      illume  == revision = "illume"
      tool    == revision = "tool"
  IN  IF illume /\ Len(s.Exclude) > 0 /\ s.Excluding THEN "excluding"
      ELSE IF illume /\ Len(s.Exclude) > 0 /\ match = TagOpen THEN "tagopen"
      ELSE IF HasPrefix(line, "!!") THEN "escape"
      ELSE IF command = "!profile" THEN "profile"
      ELSE IF tool /\ command = "!token" THEN "token"
      ELSE IF command = "!debug" THEN "debug"
      ELSE IF command = "!stats" THEN "stats"
      ELSE IF illume /\ command = "!prepend" THEN "prepend"
      ELSE IF command = "!completion" THEN "completion"
      ELSE IF command = "!context" THEN "context"
      ELSE IF illume /\ command = "!reddit" THEN "reddit"
      ELSE IF illume /\ command = "!reddit!" THEN "reddit!"
      ELSE IF illume /\ command = "!github" THEN "github"
      ELSE IF command = "!note" THEN "note"
      ELSE IF illume /\ command = "!exclude" THEN "exclude"
      ELSE IF command = "!begin" THEN "begin"
      ELSE IF command = "!end" THEN "end"
      ELSE IF command = "!api" THEN "api"
      ELSE IF command \in {"!assistant", "!user"} THEN "role"
      ELSE IF tool /\ command = "!tool" THEN "tool"
      ELSE IF command = "!infill" THEN "infill"
      ELSE IF tool /\ HasPrefix(command, "!tool:") THEN "tool:"
      ELSE IF Len(command) > 2 /\ SubSeq(command, 1, 2) = "!>" THEN "header"
      ELSE IF Len(command) > 2 /\ SubSeq(command, 1, 2) = "!:" THEN "body"
      ELSE "content"

\* The ChatState after the branch (for "profile", before LoadProfile is
\* called; for a failing embedding, when Load returns the error)
Exec(s, line, depth) ==
  LET command == cut(line, " ").pre
      args    == cut(line, " ").post
      br      == Branch(s, line)
  IN  CASE br = "excluding"  -> [s EXCEPT !.Excluding = (tagmatch(line, s.Exclude) # TagClose)]
        [] br = "tagopen"    -> [s EXCEPT !.Excluding = TRUE]
        [] br = "escape"     -> [s EXCEPT !.Builder = BuilderAppend(@, Unescape(line))]
        [] br = "profile"    -> s
        [] br = "token"      -> SetToken(s, args)
        [] br = "debug"      -> SetDebug(s, depth)
        [] br = "stats"      -> [s EXCEPT !.Stats = TRUE]
        [] br = "prepend"    -> SetPrepend(s, args)
        [] br = "completion" -> [s EXCEPT !.Type = TypeCompletion]
        [] br = "context"    -> [s EXCEPT !.Builder.Content = addcontext(@, line).w]
        [] br = "reddit"     -> [s EXCEPT !.Builder.Content = emitreddit(@, TrimSpace(args), TRUE).w]
        [] br = "reddit!"    -> [s EXCEPT !.Builder.Content = emitreddit(@, TrimSpace(args), FALSE).w]
        [] br = "github"     -> [s EXCEPT !.Builder.Content = emitgithub(@, Tail(Fields(line))).w]
        [] br = "note"       -> s
        [] br = "exclude"    -> [s EXCEPT !.Exclude = TrimSpace(args)]
        [] br = "begin"      -> Begin(s)
        [] br = "end"        -> s
        [] br = "api"        -> SetApi(s, args, depth)
        [] br = "role"       -> [s EXCEPT !.Builder = StateNew(@, From(command, 2))]
        [] br = "tool"       -> [s EXCEPT !.Builder =
                                  [StateNew(@, "tool") EXCEPT !.Content = @ \o "<tool_response>\n"]]
        [] br = "infill"     -> Infill(s, args)
        [] br = "tool:"      -> IF From(command, 7) = "readfile"
                                THEN [s EXCEPT !.Tools = @ \o <<"readfile">>] ELSE s
        [] br = "header"     -> SetHeader(s, From(command, 3), args)
        [] br = "body"       -> SetBody(s, From(command, 3), args, depth)
        [] br = "content"    -> [s EXCEPT !.Builder = BuilderAppend(@, line)]

\* The error an embedding branch returns ("" is nil)
EmbedErr(s, line) ==
  LET args == cut(line, " ").post
      br   == Branch(s, line)
  IN  CASE br = "context" -> addcontext(s.Builder.Content, line).err
        [] br = "reddit"  -> emitreddit(s.Builder.Content, TrimSpace(args), TRUE).err
        [] br = "reddit!" -> emitreddit(s.Builder.Content, TrimSpace(args), FALSE).err
        [] br = "github"  -> emitgithub(s.Builder.Content, Tail(Fields(line))).err
        [] OTHER          -> ""


(***************************************************************************)
(* The run: main, run, query and the calls of Load                         *)
(***************************************************************************)

\* an activation of Load(name, txt, depth): lines is the text from the line
\* the loop is at, lineno the number of that line
Frame(name, text, depth) == [name |-> name, lines |-> text, lineno |-> 1, depth |-> depth]

Top == stack[Len(stack)]

\* Load is running and has a line to read
Reading == pc \in {"load", "default"} /\ stack # <<>> /\ Len(Top.lines) > 0

\* the line the loop of the innermost Load reads next
Line == cut(Top.lines, "\n").pre

\* the innermost Load moves on to its next line
Advance(st) ==
  [st EXCEPT ![Len(st)].lines = cut(@, "\n").post, ![Len(st)].lineno = @ + 1]

\* the innermost Load returns nil: its caller, a Load at a !profile line,
\* moves on to its next line
Return(st) ==
  IF Len(st) = 1 THEN <<>> ELSE Advance(SubSeq(st, 1, Len(st) - 1))

\* a variant of !end that goes on with the next line
BreakNever(st) == Advance(st)

\* a variant of !end that ends every Load that is running, not the innermost
BreakAll(st) == <<>>

\* the innermost Load leaves its loop at !end and returns nil
Break(st) == Return(st)

\* a variant of LoadProfile that gives up, as if the profile were empty, when
\* the profile is one that is being loaded
CallOnce(st, profile, body) ==
  IF \E k \in DOMAIN st : st[k].name = profile
  THEN Append(st, Frame(profile, "", Top.depth + 1))
  ELSE Append(st, Frame(profile, body, Top.depth + 1))

\* the innermost Load calls LoadProfile, which calls Load on the body
Call(st, profile, body) == Append(st, Frame(profile, body, Top.depth + 1))

\* a variant of Load that returns the error of a directive as it is
WrapBare(st, e) == e

\* a variant of Load where only the innermost activation names its line
WrapInnermost(st, e) ==
  IF st = <<>> THEN e
  ELSE st[Len(st)].name \o ":" \o Itoa(st[Len(st)].lineno) \o ": " \o e

\* fmt.Errorf("%s:%d: %w", name, lineno, err) in every active Load, from the
\* innermost out
RECURSIVE Wrap(_, _)
Wrap(st, e) ==
  IF st = <<>> THEN e
  ELSE Wrap(SubSeq(st, 1, Len(st) - 1),
            st[Len(st)].name \o ":" \o Itoa(st[Len(st)].lineno) \o ": " \o e)

\* The number of nested calls of Load the stack of the process has room for
\* (Go ends the process with "fatal error: stack overflow" when a goroutine
\* stack passes its limit).
MaxDepth == 5

\* One iteration of the loop of Load in the innermost activation
LoadStep ==
  /\ Reading
  /\ LET br   == Branch(state, Line)
         s1   == Exec(state, Line, Top.depth)
         e    == EmbedErr(state, Line)
         name == TrimSpace(cut(Line, " ").post)
         body == ProfileBody(name)
         key  == From(cut(Line, " ").pre, 3)
     IN  IF br = "profile" /\ body.err = "" /\ Len(stack) >= MaxDepth
         THEN /\ pc' = "overflow"
              /\ UNCHANGED <<state, stack, hist, err>>
         ELSE IF br = "profile" /\ body.err = ""
         THEN /\ state' = [s1 EXCEPT !.Profile = name]
              /\ stack' = Call(stack, name, body.data)
              /\ hist' = [hist EXCEPT !.profiles = Append(@, name)]
              /\ UNCHANGED <<pc, err>>
         ELSE IF br = "profile" \/ e # ""
         THEN /\ err' = Wrap(stack, IF br = "profile" THEN body.err ELSE e)
              /\ pc' = "error"
              /\ stack' = <<>>
              /\ UNCHANGED <<state, hist>>
         ELSE /\ state' = s1
              /\ stack' = IF br = "end" THEN Break(stack) ELSE Advance(stack)
              /\ hist' = IF br = "body" /\ ~Protected(state, key, Top.depth)
                         THEN [hist EXCEPT !.keys = IF Top.depth = 0 THEN @ \cup {key} ELSE @,
                                           !.last = Put(@, key, Top.depth)]
                         ELSE IF br = "api" /\ (state.Api = InvalidUrl \/ Top.depth = 0)
                         THEN [hist EXCEPT !.api = TRUE]
                         ELSE hist
              /\ UNCHANGED <<pc, err>>
  /\ UNCHANGED <<environ, revision, txt, server, resp, api, strictapi, sent, stdout>>

\* The loop of the innermost Load ends at the end of its text
LoadReturn ==
  /\ pc \in {"load", "default"}
  /\ stack # <<>>
  /\ Len(Top.lines) = 0
  /\ stack' = Return(stack)
  /\ UNCHANGED <<environ, revision, txt, server, resp, state, pc, api, err, strictapi, sent, stdout, hist>>

\* query after Load("<stdin>", txt, 0): the default profile
QueryProfile ==
  /\ pc = "load"
  /\ stack = <<>>
  /\ LET profile == IF Getenv("ILLUME_PROFILE") = "" THEN DefaultProfile
                    ELSE Getenv("ILLUME_PROFILE")
         body    == ProfileBody(profile)
     IN  IF state.Profile # ""
         THEN /\ pc' = "default"
              /\ UNCHANGED <<state, stack, err>>
         ELSE IF body.err # ""
         THEN /\ pc' = "error"
              /\ err' = body.err
              /\ UNCHANGED <<state, stack>>
         ELSE /\ pc' = "default"
              /\ state' = [state EXCEPT !.Profile = profile]
              /\ stack' = <<Frame(profile, body.data, 1 + 1)>>
              /\ UNCHANGED err
  /\ UNCHANGED <<environ, revision, txt, server, resp, api, strictapi, sent, stdout, hist>>

\* a variant of the test that takes no URL for a literal
QuotedNever(url) == FALSE

\* whether an interpolated URL is given in quotes
Quoted(url) == Len(url) > 2 /\ At(url, 1) = "\"" /\ At(url, Len(url)) = "\""

\* query: the interpolation of the URL, the quotes and the trailing slash
QueryInterpolate ==
  /\ pc = "default"
  /\ stack = <<>>
  /\ LET r      == interpolate(state.Api, state.Data)
         strict == revision = "illume" /\ Quoted(r.out)
         url    == IF strict THEN SubSeq(r.out, 2, Len(r.out) - 1) ELSE r.out
     IN  IF r.err # ""
         THEN /\ pc' = "error"
              /\ err' = "interpolating URL: " \o r.err
              /\ UNCHANGED <<api, strictapi>>
         ELSE /\ pc' = "assemble"
              /\ strictapi' = strict
              /\ api' = IF ~strict /\ ~HasSuffix(url, "/") THEN url \o "/" ELSE url
              /\ UNCHANGED err
  /\ UNCHANGED <<environ, revision, txt, server, resp, state, stack, sent, stdout, hist>>


\* endsWithVersion of the revision with the tool role
endsWithVersion(s) ==
  Len(s) > 3 /\ At(s, Len(s) - 2) = "v" /\ At(s, Len(s) - 1) \in Digits

\* a variant of the suffixes that sends generic infill to completions
UrlSuffixCompletions(type) ==
  IF type = TypeChat THEN "chat/completions" ELSE "completions"

\* what the switch on state.Type of query appends to a URL given without
\* quotes
UrlSuffix(type) ==
  CASE type = TypeChat       -> "chat/completions"
    [] type = TypeCompletion -> "completions"
    [] type = TypeInfill     -> "infill"
    [] type = TypeFim        -> "completions"

\* a variant of the stream flag that respects a hard-set stream key
SetStreamUnlessSet(s, data) ==
  IF "stream" \in DOMAIN s.UserSet /\ s.UserSet["stream"] THEN data
  ELSE Put(data, "stream", [kind |-> "bool", val |-> "true"])

\* query after the switch: the stream flag or, in the revision with the tool
\* role, the registered tools
SetStream(s, data) ==
  IF revision = "tool" /\ Len(s.Tools) > 0
  THEN Put(data, "tools", [kind |-> "tools", val |-> s.Tools])
  ELSE Put(data, "stream", [kind |-> "bool", val |-> "true"])

\* The switch on state.Type of query and the stream flag.  parts is what
\* Builder.New("") returns; an index into an empty parts is a run-time panic.
\* The result is [pc, api, state, err].
Assemble(s, url, strict) ==
  LET b      == StateNew(s.Builder, "")
      parts  == b.Messages
      s1     == [s EXCEPT !.Builder = b]
      suffix == IF Len(parts) > 1 THEN "\n" \o parts[2].Content ELSE ""
      fim    == interpolate(s.FimTmpl,
                            [k \in {"prefix", "suffix"} |->
                               IF k = "prefix" THEN GoString(parts[1].Content \o "\n")
                               ELSE GoString(suffix)])
      ok(u, data) == [pc |-> "dispatch", api |-> u, err |-> "",
                      state |-> [s1 EXCEPT !.Data = SetStream(s, data)]]
      fail(e)     == [pc |-> "error", api |-> url, err |-> e, state |-> s1]
      panic       == [pc |-> "panic", api |-> url, err |-> "", state |-> s1]
  IN  CASE s.Type = TypeChat ->
             ok(IF strict THEN url ELSE url \o UrlSuffix(s.Type),
                Put(s.Data, "messages", [kind |-> "messages", val |-> parts]))
        [] s.Type = TypeCompletion ->
             IF Len(parts) = 0 THEN panic
             ELSE ok(IF strict THEN url ELSE url \o UrlSuffix(s.Type),
                     Put(s.Data, "prompt", GoString(parts[1].Content)))
        [] s.Type = TypeInfill ->
             IF revision = "tool" /\ ~endsWithVersion(url)
             THEN fail("cannot determine infill URL: " \o url)
             ELSE IF Len(parts) = 0 THEN panic
             ELSE ok(IF revision = "tool" THEN SubSeq(url, 1, Len(url) - 3) \o "infill"
                     ELSE IF strict THEN url ELSE url \o UrlSuffix(s.Type),
                     Put(Put(Put(s.Data, "prompt", GoString("")),
                             "input_prefix", GoString(parts[1].Content \o "\n")),
                         "input_suffix", GoString(suffix)))
        [] s.Type = TypeFim ->
             IF Len(parts) = 0 THEN panic
             ELSE IF fim.err # "" THEN fail("!infill: " \o fim.err)
             ELSE ok(IF strict THEN url ELSE url \o UrlSuffix(s.Type),
                     Put(s.Data, "prompt", GoString(fim.out)))

QueryAssemble ==
  /\ pc = "assemble"
  /\ LET r == Assemble(state, api, strictapi)
     IN  /\ pc' = r.pc
         /\ api' = r.api
         /\ err' = r.err
         /\ state' = r.state
  /\ UNCHANGED <<environ, revision, txt, server, resp, stack, strictapi, sent, stdout, hist>>

\* the printable ASCII characters in the order of their codes (the grave
\* accent left out)
Ascii ==
  " !\"#$%&'()*+,-./0123456789:;<=>?@ABCDEFGHIJKLMNOPQRSTUVWXYZ[\\]^_abcdefghijklmnopqrstuvwxyz{|}~"

\* a < b as Go compares strings
RECURSIVE Less(_, _)
Less(a, b) ==
  IF a = "" THEN b # ""
  ELSE IF b = "" THEN FALSE
  ELSE IF At(a, 1) = At(b, 1) THEN Less(From(a, 2), From(b, 2))
  ELSE IndexByte(Ascii, At(a, 1)) < IndexByte(Ascii, At(b, 1))

\* the keys of a map in the order encoding/json writes them
RECURSIVE SortedKeys(_)
SortedKeys(keys) ==
  IF keys = {} THEN <<>>
  ELSE LET k == CHOOSE x \in keys : \A y \in keys \ {x} : Less(x, y)
       IN  <<k>> \o SortedKeys(keys \ {k})

\* a Go string as a JSON string, HTML characters not escaped
RECURSIVE Escape(_)
Escape(s) ==
  IF s = "" THEN ""
  ELSE (CASE At(s, 1) = "\"" -> "\\\""
          [] At(s, 1) = "\\" -> "\\\\"
          [] At(s, 1) = "\n" -> "\\n"
          [] At(s, 1) = "\r" -> "\\r"
          [] At(s, 1) = "\t" -> "\\t"
          [] OTHER -> At(s, 1)) \o Escape(From(s, 2))

Quote(s) == "\"" \o Escape(s) \o "\""

\* the elements of a sequence of texts with commas between them
RECURSIVE Commas(_)
Commas(ts) ==
  IF ts = <<>> THEN ""
  ELSE IF Len(ts) = 1 THEN ts[1]
  ELSE ts[1] \o "," \o Commas(Tail(ts))

\* a Message as encoding/json writes it
EncodeMessage(m) == "{\"role\":" \o Quote(m.Role) \o ",\"content\":" \o Quote(m.Content) \o "}"

\* A value of Data as encoding/json writes it.  The text of a number, an
\* array or an object is written as the directive gave it, which is what the
\* encoder writes when that text is compact and its numbers are written the
\* way Go writes a float64.
EncodeValue(v) ==
  CASE v.kind = "string"   -> Quote(v.val)
    [] v.kind = "messages" -> "[" \o Commas([i \in 1..Len(v.val) |-> EncodeMessage(v.val[i])]) \o "]"
    [] OTHER               -> v.val

\* marshal(state.Data): the object with its keys sorted, and the line feed
\* Encode ends it with
EncodeData(data) ==
  LET keys == SortedKeys(DOMAIN data)
  IN  "{" \o Commas([i \in 1..Len(keys) |-> Quote(keys[i]) \o ":" \o EncodeValue(data[keys[i]])])
          \o "}\n"

\* the orders in which a range loop can visit the keys of a map
Orders(keys) ==
  {o \in [1..Cardinality(keys) -> keys] : \A i, j \in DOMAIN o : o[i] = o[j] => i = j}

\* the header lines of the dry run, in the order o
RECURSIVE HeaderLines(_, _)
HeaderLines(headers, o) ==
  IF o = <<>> THEN ""
  ELSE Head(o) \o ": " \o headers[Head(o)] \o "\n" \o HeaderLines(headers, Tail(o))

\* what the dry run writes when the range loop visits the headers in order o
DebugText(url, headers, data, o) ==
  "\n\nPOST " \o url \o " HTTP/1.1\n" \o HeaderLines(headers, o) \o "\n" \o EncodeData(data) \o "\n"

\* a variant of http.NewRequest that accepts every URL
NewRequestLax(url) == ""

\* The error of http.NewRequest("POST", url, body), "" for nil.  Of the
\* reasons url.Parse has to refuse a URL, the one modelled is a control
\* character in it (here the tab and the line feed).
NewRequest(url) ==
  IF ContainsAny(url, {"\t", "\n"})
  THEN "parse " \o Quote(url) \o ": net/url: invalid control character in URL"
  ELSE ""

\* query with the request assembled: the dry run of !debug, or the request
\* built and handed to the HTTP client
QueryDispatch ==
  /\ pc = "dispatch"
  /\ IF state.Debug
     THEN /\ \E o \in Orders(DOMAIN state.Headers) :
               stdout' = stdout \o DebugText(api, state.Headers, state.Data, o)
          /\ pc' = "exit0"
          /\ UNCHANGED <<sent, err>>
     ELSE IF NewRequest(api) # ""
     THEN /\ err' = NewRequest(api)
          /\ pc' = "error"
          /\ UNCHANGED <<sent, stdout>>
     ELSE /\ sent' = Append(sent, [url |-> api, headers |-> state.Headers, body |-> state.Data])
          /\ pc' = "sent"
          /\ UNCHANGED <<stdout, err>>
  /\ UNCHANGED <<environ, revision, txt, server, resp, state, stack, api, strictapi, hist>>

\* bufio.Scanner with ScanLines on the unread body: the next line, without
\* its line end, and what is left
ScanLine(body) ==
  LET c == cut(body, "\n")
  IN  [line |-> IF HasSuffix(c.pre, "\r") THEN SubSeq(c.pre, 1, Len(c.pre) - 1) ELSE c.pre,
       rest |-> c.post]

\* a variant of the stream loop that never resets nthinking
WriteFrameNoReset(r, nthinking) ==
  IF Len(r.Choices) > 0
  THEN [out |-> IF Len(r.Choices[1].Delta.Content) > 0 THEN r.Choices[1].Delta.Content
                ELSE r.Choices[1].Text,
        nthinking |-> nthinking]
  ELSE IF Len(r.Delta.Thinking) > 0
  THEN [out |-> (IF nthinking = 0 THEN "<think>\n" ELSE "") \o r.Delta.Thinking,
        nthinking |-> nthinking + 1]
  ELSE IF Len(r.Delta.Text) > 0
  THEN [out |-> (IF nthinking > 0 THEN "\n</think>\n\n" ELSE "") \o r.Delta.Text,
        nthinking |-> nthinking]
  ELSE [out |-> r.Content, nthinking |-> nthinking]

\* What the stream loop writes for a decoded frame, and nthinking after it
WriteFrame(r, nthinking) ==
  IF Len(r.Choices) > 0
  THEN [out |-> IF Len(r.Choices[1].Delta.Content) > 0 THEN r.Choices[1].Delta.Content
                ELSE r.Choices[1].Text,
        nthinking |-> nthinking]
  ELSE IF Len(r.Delta.Thinking) > 0
  THEN [out |-> (IF nthinking = 0 THEN "<think>\n" ELSE "") \o r.Delta.Thinking,
        nthinking |-> nthinking + 1]
  ELSE IF Len(r.Delta.Text) > 0
  THEN [out |-> (IF nthinking > 0 THEN "\n</think>\n\n" ELSE "") \o r.Delta.Text,
        nthinking |-> 0]
  ELSE [out |-> r.Content, nthinking |-> nthinking]

\* a variant of the sentinel test that lets the stream run on
SentinelNever(data) == FALSE

\* the payload that ends the stream
Sentinel(data) == data = "[DONE]"

\* a variant of the status test that takes every 2xx status for success
SuccessAny2xx(status) == status \in 200..299

\* the status of a response whose body is the event stream
Success(status) == status = 200

\* a variant of query that returns with the response body open
ReleaseNever(r) == r

\* defer resp.Body.Close(), run when query returns
Release(r) == [r EXCEPT !.open = FALSE]

Closed == [open |-> FALSE, body |-> "", nthinking |-> 0, nevents |-> 0, w |-> ""]

\* query after client.Do: the transport error, the status, the !assistant
\* header
QueryResponse ==
  /\ pc = "sent"
  /\ IF server.status = 0
     THEN /\ err' = "Post \"" \o api \o "\": " \o server.body
          /\ pc' = "error"
          /\ UNCHANGED <<resp, stdout>>
     ELSE IF ~Success(server.status)
     THEN /\ err' = "HTTP " \o Itoa(server.status) \o ": " \o server.body
          /\ pc' = "error"
          /\ resp' = Release([open |-> TRUE, body |-> "", nthinking |-> 0, nevents |-> 0,
                               w |-> ""])
          /\ UNCHANGED stdout
     ELSE /\ resp' = [open |-> TRUE, body |-> server.body, nthinking |-> 0, nevents |-> 0,
                       w |-> ""]
          /\ stdout' = IF state.Type = TypeChat
                       THEN stdout \o "\n\n!assistant\n\n" \o state.Prepend
                       ELSE stdout
          /\ pc' = "stream"
          /\ UNCHANGED err
  /\ UNCHANGED <<environ, revision, txt, server, state, stack, api, strictapi, sent, hist>>

\* a variant of the stream loop that leaves the text in the buffer
FlushLater(out, w) == [out |-> out, w |-> w]

\* w.Flush() at the end of an iteration of the stream loop: the text in the
\* buffer of the writer goes to standard output
Flush(out, w) == [out |-> out \o w, w |-> ""]

\* One call of s.Scan() and the iteration of the stream loop it leads to, or
\* the end of the loop
QueryScan ==
  /\ pc = "stream"
  /\ LET l     == ScanLine(resp.body)
         data  == From(l.line, 7)
         Write(f) == /\ resp' = [resp EXCEPT !.body = l.rest, !.nthinking = f.nthinking,
                                             !.nevents = @ + 1,
                                             !.w = Flush(stdout, resp.w \o f.out).w]
                     /\ stdout' = Flush(stdout, resp.w \o f.out).out
     IN  IF resp.body = ""
         THEN IF server.readerr # ""
              THEN /\ err' = server.readerr
                   /\ pc' = "error"
                   /\ resp' = Release(resp)
                   /\ UNCHANGED stdout
              ELSE /\ pc' = "done"
                   /\ UNCHANGED <<resp, err, stdout>>
         ELSE IF ~HasPrefix(l.line, "data: ")
         THEN /\ resp' = [resp EXCEPT !.body = l.rest]
              /\ UNCHANGED <<pc, err, stdout>>
         ELSE IF Sentinel(data)
         THEN /\ resp' = [resp EXCEPT !.body = l.rest]
              /\ pc' = "done"
              /\ UNCHANGED <<err, stdout>>
         ELSE /\ Write(WriteFrame(Decode(data), resp.nthinking))
              /\ UNCHANGED <<pc, err>>
  /\ UNCHANGED <<environ, revision, txt, server, state, stack, api, strictapi, sent, hist>>

\* the measurements the !stats note prints: they depend on the clock
Measured == {[rate |-> "12.5", time |-> "1.2s"], [rate |-> "+Inf", time |-> "0s"]}

\* query after the stream loop: the body is closed, the !stats note written
QueryStats ==
  /\ pc = "done"
  /\ resp' = Release([resp EXCEPT !.w = ""])
  /\ \E m \in Measured :
       stdout' = IF state.Stats
                 THEN stdout \o resp.w \o "\n\n!note " \o m.rate \o " tok/s, "
                             \o Itoa(resp.nevents) \o " toks, " \o m.time
                 ELSE stdout \o resp.w
  /\ pc' = "exit0"
  /\ UNCHANGED <<environ, revision, txt, server, state, stack, api, err, strictapi, sent, hist>>

\* main: the error block and the exit status
MainError ==
  /\ pc = "error"
  /\ stdout' = stdout \o "\n\n!error\n\n" \o err \o "\n"
  /\ pc' = "exit1"
  /\ UNCHANGED <<environ, revision, txt, server, resp, state, stack, api, err, strictapi, sent, hist>>

Next ==
  \/ LoadStep
  \/ LoadReturn
  \/ QueryProfile
  \/ QueryInterpolate
  \/ QueryAssemble
  \/ QueryDispatch
  \/ QueryResponse
  \/ QueryScan
  \/ QueryStats
  \/ MainError

(***************************************************************************)
(* Inputs                                                                  *)
(***************************************************************************)

\* the documents of at most n lines drawn from lines
RECURSIVE Docs(_, _)
Docs(lines, n) ==
  IF n = 0 THEN {""}
  ELSE {""} \cup {l \o "\n" \o d : l \in lines, d \in Docs(lines, n - 1)}

\* NewChatState(token) of the revision with the tool role
InitialState ==
  IF revision = "tool" /\ Getenv("ILLUME_TOKEN") # ""
  THEN [NewChatState EXCEPT !.Headers = Put(@, "authorization", "Bearer " \o Getenv("ILLUME_TOKEN"))]
  ELSE NewChatState

\* a server that answers 200 with the given lines
Answer(body) == [status |-> 200, body |-> body, readerr |-> ""]

\* a server that streams one chat delta and the sentinel
DefaultServer ==
  Answer("data: {\"choices\":[{\"delta\":{\"content\":\"Hi\"}}]}\n\ndata: [DONE]\n")

\* main -> run -> query(txt), at the call of Load("<stdin>", txt, 0)
InitRun(lines, n, envs, revisions, servers) ==
  /\ environ \in envs
  /\ revision \in revisions
  /\ txt \in Docs(lines, n)
  /\ server \in servers
  /\ state = InitialState
  /\ stack = <<Frame("<stdin>", txt, 0)>>
  /\ pc = "load"
  /\ api = ""
  /\ err = ""
  /\ strictapi = FALSE
  /\ sent = <<>>
  /\ resp = Closed
  /\ stdout = ""
  /\ hist = [keys |-> {}, last |-> EmptyMap, profiles |-> <<>>, api |-> FALSE]

InitWith(lines, n, envs, revisions) == InitRun(lines, n, envs, revisions, {DefaultServer})

Env(profile) ==
  [n \in {"ILLUME_PROFILE", "OPENAI_API_KEY", "HF_TOKEN"} |->
     CASE n = "ILLUME_PROFILE" -> profile
       [] n = "OPENAI_API_KEY" -> "sk-1"
       [] n = "HF_TOKEN"       -> "hf_1"]

MaxLines == 3

\* documents of body-field, profile and URL directives
OverrideLines ==
  { "!:model m1", "!:max_tokens 5", "!:max_tokens",
    "!profile openai", "!profile claude-extended", "!profile huggingface.co",
    "!profile", "!profile conf/deep", "!profile nowhere",
    "!api http://h/{model}" }

\* documents of URL directives and of profiles that hold some
ApiLines ==
  { "!api http://u1/v1", "!api http://invalid./", "!api",
    "!profile openai", "!profile conf/deep", "!profile nowhere", "!:model m1" }

Init == InitWith(OverrideLines, MaxLines, {Env(""), Env("openai")}, {"illume"})

Spec == Init /\ [][Next]_vars

MaxInterpLines == 3

\* documents of URL templates and of the body keys they name
InterpLines ==
  { "!api {a}/{b}", "!api {a", "!api p}{b}{a}q", "!api {a}{c", "!api plain",
    "!:a x", "!:b y", "!:a" }

InitInterp == InitWith(InterpLines, MaxInterpLines, {Env("")}, {"illume"})

SpecInterp == InitInterp /\ [][Next]_vars

MaxChatLines == 4

\* documents of a conversation: role switches, text, blank lines, and an
\* embedding that fails
ChatLines == { "!user", "!assistant", "!tool", "Hello", "Hi there", "", "!context" }

InitChat == InitWith(ChatLines, MaxChatLines, {Env("")}, {"illume", "tool"})

SpecChat == InitChat /\ [][Next]_vars

MaxModeLines == 3

\* documents that select a mode and give a URL, plain, ending in "/", with a
\* placeholder, or in quotes
ModeLines ==
  { "!completion", "!infill", "!infill <P>{prefix}<S>{suffix}", "Hello",
    "!api http://h/v1", "!api http://h/", "!api http://h/{model}",
    "!api \"http://q/x\"", "!:model m1" }

InitMode == InitWith(ModeLines, MaxModeLines, {Env("")}, {"illume"})

SpecMode == InitMode /\ [][Next]_vars

MaxLiteralLines == 4

\* documents that give the URL in quotes, with a placeholder or with nothing
\* between the quotes, and select a mode
LiteralLines ==
  { "!completion", "!infill", "!infill <P>{prefix}<S>{suffix}", "Hello",
    "!api \"http://q/{model}\"", "!api \"\"", "!:model" }

\* model comes from the default profile openai unless the document deletes it
InitLiteral == InitWith(LiteralLines, MaxLiteralLines, {Env("openai")}, {"illume"})

SpecLiteral == InitLiteral /\ [][Next]_vars

MaxStreamLines == 3

\* documents that write the body keys the assembler writes too, register a
\* tool, and hold an embedding that fails
StreamLines ==
  { "!:stream false", "!:messages 1", "!:prompt 1", "!tool:readfile",
    "Hello", "!completion", "!context" }

InitStream == InitWith(StreamLines, MaxStreamLines, {Env("")}, {"illume", "tool"})

SpecStream == InitStream /\ [][Next]_vars

MaxRunLines == 1

MaxFrames == 4

\* a server that refuses the request with a status and a message
Refusal == [status |-> 429, body |-> "rate limited", readerr |-> ""]

\* response bodies of chat deltas, a flat completion frame, the sentinel and
\* the blank line that separates events
ChatFrames ==
  { "data: {\"choices\":[{\"delta\":{\"content\":\"He\"}}]}",
    "data: {\"choices\":[{\"delta\":{\"content\":\"llo\"}}]}",
    "data: {\"content\":\"c\"}",
    "data: [DONE]", "" }

InitFrames ==
  InitRun({"Hello"}, MaxRunLines, {Env("")}, {"illume"},
          {Answer(b) : b \in Docs(ChatFrames, MaxFrames)} \cup {Refusal})

SpecFrames == InitFrames /\ [][Next]_vars

MaxThinkFrames == 4

\* response bodies of reasoning and text fragments, an empty fragment, a
\* frame cut short and the sentinel
ThinkFrames ==
  { "data: {\"delta\":{\"thinking\":\"abc\"}}",
    "data: {\"delta\":{\"text\":\"def\"}}",
    "data: {\"delta\":{\"text\":\"\",\"thinking\":\"\"}}",
    "data: {\"delta\":{\"thinking\":\"abc\"",
    "data: [DONE]" }

InitThink ==
  InitRun({"Hello"}, MaxRunLines, {Env("")}, {"illume"},
          {Answer(b) : b \in Docs(ThinkFrames, MaxThinkFrames)} \cup {Refusal})

SpecThink == InitThink /\ [][Next]_vars

MaxStatusLines == 3

\* documents with and without a text to prepend to the reply
StatusLines == {"Hello", "!user", "!prepend Sure"}

Statuses == {200, 201, 429, 500}

\* every status with an event stream or a plain text as the body
InitStatus ==
  InitRun(StatusLines, MaxStatusLines, {Env("")}, {"illume"},
          {[status |-> c, body |-> b, readerr |-> ""] :
             c \in Statuses, b \in {DefaultServer.body, "rate limited"}})

SpecStatus == InitStatus /\ [][Next]_vars

MaxDebugLines == 3

\* documents that turn the dry run on themselves or through a profile file,
\* stop early, add a header, or fail
DebugLines ==
  {"!debug", "Hello", "!end", "!profile conf/dry", "!>x-a 1", "!profile nowhere"}

InitDebug == InitWith(DebugLines, MaxDebugLines, {Env("")}, {"illume"})

SpecDebug == InitDebug /\ [][Next]_vars

MaxControlLines == 4

\* documents of content, roles, !begin and !end, a body field, a profile file
\* with an !end of its own, and a profile that does not exist
ControlLines ==
  {"Hello", "!user", "!begin", "!end", "!:k v", "!profile site", "!profile nowhere"}

InitControl == InitWith(ControlLines, MaxControlLines, {Env("")}, {"illume"})

SpecControl == InitControl /\ [][Next]_vars

MaxEscapeLines == 3

\* documents of escaped lines, content, an excluded region and a profile
\* that does not exist
EscapeLines ==
  {"!!end", "!!:k v", "!!profile x", "Hello", "!exclude think", "<think>", "</think>",
   "!profile nowhere"}

InitEscape == InitWith(EscapeLines, MaxEscapeLines, {Env("")}, {"illume"})

SpecEscape == InitEscape /\ [][Next]_vars

MaxHeaderLines == 3

\* documents that set, replace and delete headers, with keys that differ in
\* case only, and profiles that set headers of their own
HeaderDirectives ==
  {"!>x-a 1", "!>X-A 2", "!>x-a", "!>authorization mine", "!profile openai",
   "!profile nowhere", "Hello"}

InitHeader == InitWith(HeaderDirectives, MaxHeaderLines, {Env(""), Env("openai")}, {"illume"})

SpecHeader == InitHeader /\ [][Next]_vars

MaxFimLines == 4

\* documents of two lines of content, the infill marker, a template, the
\* completion mode and a profile that does not exist
FimLines ==
  {"A", "B", "!infill", "!infill <P>{prefix}<S>{suffix}", "!completion", "!profile nowhere"}

\* the default profile is llama.cpp or the template of fim:qwen
InitFim == InitWith(FimLines, MaxFimLines, {Env(""), Env("fim:qwen")}, {"illume"})

SpecFim == InitFim /\ [][Next]_vars

MaxFailLines == 3

\* documents that fail in every stage of a run: an embedding without its
\* arguments, a profile that does not exist, URL and FIM templates with an
\* unmatched brace or an unknown key, a URL no request can be built for
FailLines ==
  { "Hello", "!context", "!profile nowhere", "!api http://h/{nokey}", "!api http://h/{a",
    "!api http://h/\tx", "!infill <P>{prefix", "!infill" }

\* a connection that is refused
Unreachable == [status |-> 0, body |-> "dial tcp 127.0.0.1:8080: connect: connection refused",
                readerr |-> ""]

\* a stream that breaks after its first event
Broken == [status |-> 200, body |-> "data: {\"choices\":[{\"delta\":{\"content\":\"Hi\"}}]}\n",
           readerr |-> "unexpected EOF"]

InitFail ==
  InitRun(FailLines, MaxFailLines, {Env("")}, {"illume"},
          {DefaultServer, Refusal, Unreachable, Broken})

SpecFail == InitFail /\ [][Next]_vars

MaxPassLines == 3

\* documents of URL templates with nested and stray braces and more than one
\* error, and of body keys whose values hold braces themselves
PassLines ==
  { "!api {a}/{b}", "!api }x{a}", "!api {a{b}}", "!api {zz}{a", "!api {a}{",
    "!:a {b}", "!:b y", "!:a x}" }

InitPass == InitWith(PassLines, MaxPassLines, {Env("")}, {"illume"})

SpecPass == InitPass /\ [][Next]_vars

MaxValueLines == 2

\* documents of a URL template and of the values of its key: a number, a
\* boolean, null, an array, an object and two strings
ValueLines ==
  { "!api http://h/{n}/x", "!:n 5", "!:n true", "!:n null", "!:n [1,\"a\"]", "!:n {\"k\":1}",
    "!:n \"q\"", "!:n v", "Hello" }

InitValue == InitWith(ValueLines, MaxValueLines, {Env("")}, {"illume"})

SpecValue == InitValue /\ [][Next]_vars

MaxReleaseLines == 2

\* a stream that ends without the sentinel
Unfinished == Answer(Broken.body)

\* a stream that goes on after the sentinel
Overlong == Answer(DefaultServer.body \o Broken.body)

\* every way a response can end, and a connection that gives no response
InitRelease ==
  InitRun({"Hello", "!debug", "!profile nowhere"}, MaxReleaseLines, {Env("")}, {"illume"},
          {DefaultServer, Overlong, Unfinished, Broken, Refusal, Unreachable})

SpecRelease == InitRelease /\ [][Next]_vars

MaxNestLines == 3

\* documents of lines that fail at once, in a profile, or in a profile of a
\* profile, among content, blank lines and a body field
NestLines ==
  { "Hello", "", "!:seed 9", "!context", "!profile nowhere", "!profile conf/bad",
    "!profile conf/outer" }

InitNest == InitWith(NestLines, MaxNestLines, {Env("")}, {"illume"})

SpecNest == InitNest /\ [][Next]_vars

MaxCycleLines == 3

\* documents that include profile files with and without a cycle of
\* inclusions, a built-in profile that includes another, and a profile that
\* does not exist
CycleLines ==
  {"Hello", "!profile conf/deep", "!profile conf/loop", "!profile conf/ping",
   "!profile claude-extended", "!profile nowhere"}

\* those documents, and the documents that include one built-in profile
InitCycle ==
  \/ InitWith(CycleLines, MaxCycleLines, {Env("")}, {"illume"})
  \/ InitWith({"!profile " \o p : p \in DOMAIN Profiles}, 1, {Env("")}, {"illume"})

\* The process keeps running: a call of Load that has a line to read reads
\* it, one that has none returns, and query goes on to the default profile.
\* (LoadStep is enabled exactly when Reading holds and always changes the
\* stack or pc; its weak fairness is written out with that condition.)
SpecCycle ==
  /\ InitCycle /\ [][Next]_vars
  /\ WF_vars(LoadReturn) /\ WF_vars(QueryProfile)
  /\ ([]<>~Reading \/ []<><<LoadStep>>_vars)

MaxExcludeLines == 3

\* documents of an exclusion tag, its two marker lines, directives and
\* content to stand between them, a profile file that names the tag and
\* ends inside a region, and a profile that does not exist
ExcludeLines ==
  {"!exclude t", "<t>", "</t>", "!end", "!begin", "!!x", "Hello", "!profile conf/ex",
   "!profile nowhere"}

InitExclude == InitWith(ExcludeLines, MaxExcludeLines, {Env("")}, {"illume"})

SpecExclude == InitExclude /\ [][Next]_vars

InitApi == InitWith(ApiLines, MaxLines, {Env(""), Env("openai")}, {"illume"})

SpecApi == InitApi /\ [][Next]_vars

(***************************************************************************)
(* Body fields: what the top-level document sets, a profile cannot change  *)
(***************************************************************************)

\* the entry of a body key: <<>> when the key is absent
BodyAt(s, k) == IF k \in DOMAIN s.Data THEN <<s.Data[k]>> ELSE <<>>

\* the hard-set marker of a body key
Hard(s, k) == k \in DOMAIN s.UserSet /\ s.UserSet[k]

\* a !:KEY directive is the line Load reads next
AtBody == Reading /\ Branch(state, Line) = "body"

BodyKey == From(cut(Line, " ").pre, 3)

BodyArgs == TrimSpace(cut(Line, " ").post)

\* C1: once a !:KEY directive has been applied at depth 0, no line that Load
\* interprets at depth > 0 (in a profile included by the document, at any
\* nesting, or in the default profile loaded after it) changes the value of KEY
\* in the body mapping or deletes it.
C1_OverrideInvariant ==
  [][ (Reading /\ Top.depth > 0) =>
        \A k \in hist.keys : BodyAt(state', k) = BodyAt(state, k) ]_vars

\* C1 witness: the default profile openai, loaded after a document that set
\* max_tokens, has passed its "!:max_tokens" line and the document's value stands
C1_Witness ==
  /\ pc = "default" /\ stack # <<>>
  /\ Top.name = "openai" /\ Top.depth > 0 /\ Top.lineno = 5
  /\ "max_tokens" \in hist.keys
  /\ BodyAt(state, "max_tokens") = <<[kind |-> "number", val |-> "5"]>>

\* C2: a !:KEY directive for a key that no depth-0 directive has written takes
\* full effect wherever it is read, in a profile processed later or at depth 0:
\* a non-empty argument replaces the value a profile had set, an empty one
\* deletes the key.
C2_ProfileValuesUnprotected ==
  [][ (AtBody /\ BodyKey \notin hist.keys) =>
        BodyAt(state', BodyKey) =
          IF BodyArgs = "" THEN <<>> ELSE <<BodyValue(BodyArgs)>> ]_vars

\* C2 witness: after claude-extended (with claude below it) set model and
\* max_tokens, the profile openai replaced the one and deleted the other
C2_Witness ==
  /\ Reading /\ Top.name = "openai" /\ Top.lineno = 5
  /\ hist.profiles = <<"claude-extended", "claude", "openai">>
  /\ hist.keys = {}
  /\ BodyAt(state, "model") = <<GoString("gpt-4.1-mini")>>
  /\ BodyAt(state, "max_tokens") = <<>>

\* C3: the hard-set marker of a key is true exactly when the last !:KEY
\* directive applied to it ran at depth 0: no key is marked at the start (the
\* initial max_tokens included), and a key last written by a profile is not.
C3_HardMarker ==
  \A k \in DOMAIN state.Data \cup DOMAIN state.UserSet \cup DOMAIN hist.last :
     Hard(state, k) <=> (k \in DOMAIN hist.last /\ hist.last[k] = 0)

\* C3 witness: model was written by the depth-1 profile openai and is not
\* marked, max_tokens by the document and is
C3_Witness ==
  /\ hist.last = ("model" :> 1 @@ "max_tokens" :> 0)
  /\ hist.profiles = <<"openai">>
  /\ ~Hard(state, "model") /\ "model" \in DOMAIN state.UserSet
  /\ Hard(state, "max_tokens")

(***************************************************************************)
(* The URL: which !api directive counts, and when {key} is resolved        *)
(***************************************************************************)

\* an !api directive is the line Load reads next
AtApi == Reading /\ Branch(state, Line) = "api"

\* C4: an !api directive read at depth 0 always sets the URL; one read at
\* depth > 0 sets it when no !api directive has taken effect yet and leaves it
\* alone otherwise, so a URL set at depth 0 stands whatever profile follows.
C4_ApiPrecedence ==
  [][ AtApi =>
        state'.Api = IF Top.depth = 0 \/ ~hist.api
                     THEN TrimSpace(cut(Line, " ").post)
                     ELSE state.Api ]_vars

\* C5: the {key} placeholders of the URL are resolved after the document and
\* the default profile have been read, against the body mapping as it is then:
\* nothing is resolved while Load runs, and the URL of "!api http://h/{model}"
\* carries the final value of model wherever that was set.
C5_DeferredInterpolation ==
  /\ pc \in {"load", "default"} => api = ""
  /\ (pc = "assemble" /\ \E d \in Docs(OverrideLines, MaxLines - 1) :
                           txt = "!api http://h/{model}\n" \o d)
       => /\ "model" \in DOMAIN state.Data
          /\ api = "http://h/" \o state.Data["model"].val \o "/"

\* C5 witness: the document holds only the !api line; model comes from the
\* default profile, read after it
C5_Witness ==
  /\ txt = "!api http://h/{model}\n"
  /\ pc = "assemble"
  /\ hist.profiles = <<>> /\ state.Profile = "openai"
  /\ api = "http://h/gpt-4.1-mini/"

(***************************************************************************)
(* The default profile                                                     *)
(***************************************************************************)

\* getenv("ILLUME_PROFILE"), else the built-in default
DefaultName ==
  IF Getenv("ILLUME_PROFILE") = "" THEN DefaultProfile ELSE Getenv("ILLUME_PROFILE")

\* C9: when Load of the document has returned, the default profile is loaded,
\* below the document, if no !profile directive resolved a profile; if one
\* did, no default profile is loaded.
C9_DefaultProfile ==
  [][ (pc = "load" /\ stack = <<>>) =>
        IF hist.profiles = <<>>
        THEN /\ Len(stack') = 1
             /\ stack'[1].name = DefaultName
             /\ stack'[1].lines = ProfileBody(DefaultName).data
             /\ stack'[1].depth >= 1
        ELSE stack' = <<>> /\ state' = state ]_vars

(***************************************************************************)
(* interpolate                                                             *)
(***************************************************************************)

\* What a template stands for under the string-valued mapping m, span by span from the
\* left: [out, err] with err "" when every span resolves
RECURSIVE Expand(_, _)
Expand(t, m) ==
  LET i    == IndexByte(t, "{")
      rest == From(t, i + 1)
      j    == IndexByte(rest, "}")
      key  == SubSeq(rest, 1, j - 1)
      tail == Expand(From(rest, j + 1), m)
  IN  IF i = 0 THEN [out |-> t, err |-> ""]
      ELSE IF j = 0 THEN [out |-> "", err |-> "unmatched '}'"]
      ELSE IF key \notin DOMAIN m THEN [out |-> "", err |-> "missing key: " \o key]
      ELSE IF tail.err # "" THEN tail
      ELSE [out |-> SubSeq(t, 1, i - 1) \o m[key].val \o tail.out, err |-> ""]

WithSlash(url) == IF HasSuffix(url, "/") THEN url ELSE url \o "/"

\* C6: interpolate replaces every {key} span, left to right, by vars[key] and
\* copies the text outside the spans (a template without "{" comes back as it
\* is); it fails with "missing key" and no text when a key is absent and with
\* the unmatched-brace error when a "{" has no later "}".  {a}/{b} with a = x,
\* b = y gives x/y.  (Observed on the URL, which query interpolates with the
\* body mapping and ends with a "/".)
C6_Interpolate ==
  LET exp == Expand(state.Api, state.Data)
  IN  /\ pc = "assemble" => exp.err = "" /\ api = WithSlash(exp.out)
      /\ pc \in {"error", "exit1"} =>
            exp.err # "" /\ err = "interpolating URL: " \o exp.err /\ api = ""
      /\ (pc \in {"assemble", "error"} /\ state.Api = "{a}/{b}") =>
            IF BodyAt(state, "a") = <<>> THEN err = "interpolating URL: missing key: a"
            ELSE IF BodyAt(state, "b") = <<>> THEN err = "interpolating URL: missing key: b"
            ELSE api = BodyAt(state, "a")[1].val \o "/" \o BodyAt(state, "b")[1].val \o "/"
      /\ (pc \in {"assemble", "error"} /\ state.Api = "{a") =>
            err = "interpolating URL: unmatched '}'"
      /\ (pc \in {"assemble", "error"} /\ state.Api = "plain") => api = "plain/"

\* C6 witness: {a}/{b} with a = x and b = y has become x/y
C6_Witness ==
  /\ txt = "!api {a}/{b}\n!:a x\n!:b y\n"
  /\ pc = "assemble"
  /\ api = "x/y/"

(***************************************************************************)
(* The messages of a conversation                                          *)
(***************************************************************************)

\* the lines of a text
RECURSIVE LinesOf(_)
LinesOf(t) ==
  IF t = "" THEN <<>> ELSE <<cut(t, "\n").pre>> \o LinesOf(cut(t, "\n").post)

\* the role-switch directives of the running revision
RoleLines ==
  IF revision = "tool" THEN {"!user", "!assistant", "!tool"} ELSE {"!user", "!assistant"}

\* The segments of a conversation: the lines between one role switch and the
\* next, under the role the switch names; cur is the segment being read
RECURSIVE SegmentsFrom(_, _)
SegmentsFrom(ls, cur) ==
  IF ls = <<>> THEN <<cur>>
  ELSE IF Head(ls) \in RoleLines
  THEN <<cur>> \o SegmentsFrom(Tail(ls), [role |-> From(Head(ls), 2), lines |-> <<>>])
  ELSE SegmentsFrom(Tail(ls), [cur EXCEPT !.lines = Append(@, Head(ls))])

Segments == SegmentsFrom(LinesOf(txt), [role |-> "system", lines |-> <<>>])

\* the trimmed content of a segment; a tool segment is wrapped in its markers
SegContent(seg) ==
  Trim(IF seg.role = "tool"
       THEN "<tool_response>\n" \o JoinLines(seg.lines) \o "</tool_response>"
       ELSE JoinLines(seg.lines),
       {"\r", "\n"})

\* the request is assembled (the conversations here are all in chat mode)
Assembled == pc \in {"dispatch", "sent", "stream", "done", "exit0"}

Sent == state.Data["messages"].val

\* C7: the number of finalized messages is the number of segments whose trimmed
\* content is non-empty plus one synthetic empty assistant message for every
\* entry into the tool role; no other message has empty content.
C7_MessageCount ==
  Assembled =>
    /\ Len(Sent) = Cardinality({i \in DOMAIN Segments : SegContent(Segments[i]) # ""})
                   + Cardinality({i \in DOMAIN Segments : Segments[i].role = "tool"})
    /\ Cardinality({i \in DOMAIN Sent : Sent[i].Content = ""})
          = Cardinality({i \in DOMAIN Segments : Segments[i].role = "tool"})
    /\ \A i \in DOMAIN Sent : Sent[i].Content = "" => Sent[i].Role = "assistant"

\* C7 witness: an empty system segment, an empty user segment, one entry into
\* the tool role and an assistant segment with text give three messages
C7_Witness ==
  /\ txt = "!user\n!tool\n!assistant\nHello\n"
  /\ revision = "tool"
  /\ Assembled
  /\ Len(Sent) = 3
  /\ Sent[1] = Message("assistant", "")

\* the messages of the segments that have content, in order
RECURSIVE MessagesOf(_)
MessagesOf(segs) ==
  IF segs = <<>> THEN <<>>
  ELSE (IF SegContent(Head(segs)) # ""
        THEN <<Message(Head(segs).role, SegContent(Head(segs)))>> ELSE <<>>)
       \o MessagesOf(Tail(segs))

\* C8: each finalized message carries the role of the most recent role switch
\* before its segment, system when there is none, and the messages come in
\* document order: !user, Hello, !assistant, Hi there gives exactly
\* [{user, Hello}, {assistant, Hi there}].
C8_MessageRoles ==
  (Assembled /\ revision = "illume") =>
    /\ Sent = MessagesOf(Segments)
    /\ txt = "!user\nHello\n!assistant\nHi there\n" =>
          Sent = <<Message("user", "Hello"), Message("assistant", "Hi there")>>

\* C8 witness: the example, and a document that starts in the system role
C8_Witness ==
  /\ txt = "Hello\n!user\nHi there\n"
  /\ revision = "illume"
  /\ Assembled
  /\ Sent = <<Message("system", "Hello"), Message("user", "Hi there")>>

(***************************************************************************)
(* The request URL                                                         *)
(***************************************************************************)

\* The mode a document selects: the last of its !completion and no-argument
\* !infill lines decides, an !infill with an argument registers a template
RECURSIVE ModeFrom(_, _, _)
ModeFrom(ls, mode, tmpl) ==
  IF ls = <<>> THEN mode
  ELSE LET command == cut(Head(ls), " ").pre
           args    == cut(Head(ls), " ").post
       IN  IF command = "!completion" THEN ModeFrom(Tail(ls), "completion", tmpl)
           ELSE IF command = "!infill" /\ args = ""
           THEN ModeFrom(Tail(ls), IF tmpl THEN "fim" ELSE "infill", tmpl)
           ELSE IF command = "!infill" THEN ModeFrom(Tail(ls), mode, TRUE)
           ELSE ModeFrom(Tail(ls), mode, tmpl)

Mode == ModeFrom(LinesOf(txt), "chat", FALSE)

QuotedLiteral(url) ==
  Len(url) >= 2 /\ At(url, 1) = "\"" /\ At(url, Len(url)) = "\""

\* C10: when the interpolated URL is not a quoted literal, the request URL is
\* that URL, with a "/" added unless it ends with one, followed by the suffix
\* of the mode: chat/completions for chat, completions for raw completion,
\* infill for generic infill, completions for template FIM; the mode is the
\* last one selected, chat when none is.
C10_RequestUrl ==
  LET base == Expand(state.Api, state.Data).out
  IN  (pc = "dispatch" /\ ~QuotedLiteral(base)) =>
        api = WithSlash(base) \o
              (CASE Mode = "chat"       -> "chat/completions"
                 [] Mode = "completion" -> "completions"
                 [] Mode = "infill"     -> "infill"
                 [] Mode = "fim"        -> "completions")

\* C10 witness: generic infill on a URL given without the "/"
C10_Witness ==
  /\ txt = "!api http://h/v1\nHello\n!infill\n"
  /\ pc = "dispatch"
  /\ state.Type = TypeInfill
  /\ api = "http://h/v1/infill"

\* the text between the quotes of a quoted literal
Unwrapped(url) == SubSeq(url, 2, Len(url) - 1)

True == [kind |-> "bool", val |-> "true"]

\* C12 as stated: every assembled request body has stream = true, whatever
\* !:stream directives were processed.
C12_StreamAlways ==
  /\ Assembled => BodyAt(state, "stream") = <<True>>
  /\ \A i \in DOMAIN sent : "stream" \in DOMAIN sent[i].body /\ sent[i].body["stream"] = True

\* C12 amended: every assembled request body has stream = true, whatever
\* !:stream directives were processed, except in the revision with the tool
\* role when a tool is registered: there the assembler writes tools instead and
\* stream stays as the document left it.  The assembler's writes to messages
\* and prompt replace what a depth-0 directive had set.
C12_StreamUnlessTools ==
  LET tools == revision = "tool" /\ state.Tools # <<>>
      body  == IF sent = <<>> THEN state.Data ELSE sent[1].body
  IN  Assembled =>
        /\ ~tools => "stream" \in DOMAIN body /\ body["stream"] = True
        /\ tools  => /\ "tools" \in DOMAIN body
                     /\ ("stream" \in DOMAIN body) = ("stream" \in hist.keys)
                     /\ "stream" \in DOMAIN body => body["stream"] = JsonValue("false")
        /\ state.Type = TypeChat => body["messages"].kind = "messages"
        /\ state.Type = TypeCompletion => body["prompt"].kind = "string"

\* C12 witness: a request sent with stream = true and the message list although
\* the document set both keys at depth 0
C12_Witness ==
  /\ pc = "sent"
  /\ {"stream", "messages"} \subseteq hist.keys
  /\ Hard(state, "stream")
  /\ sent[1].body["stream"] = True
  /\ sent[1].body["messages"] = [kind |-> "messages", val |-> <<Message("system", "Hello")>>]

(***************************************************************************)
(* The response: the normalizer of the stream                              *)
(***************************************************************************)

\* what a chat request's output starts with
Header == "\n\n!assistant\n\n"

\* the text each data frame of the response bodies carries
FrameText ==
  [d \in {From(l, 7) : l \in {f \in ChatFrames : HasPrefix(f, "data: {")}} |->
     CASE d = "{\"choices\":[{\"delta\":{\"content\":\"He\"}}]}"  -> "He"
       [] d = "{\"choices\":[{\"delta\":{\"content\":\"llo\"}}]}" -> "llo"
       [] d = "{\"content\":\"c\"}"                                 -> "c"]

\* the texts of the data frames of ls up to the first sentinel, in order
RECURSIVE TextBefore(_)
TextBefore(ls) ==
  IF ls = <<>> THEN ""
  ELSE IF ~HasPrefix(Head(ls), "data: ") THEN TextBefore(Tail(ls))
  ELSE IF From(Head(ls), 7) = "[DONE]" THEN ""
  ELSE FrameText[From(Head(ls), 7)] \o TextBefore(Tail(ls))

\* the lines after the first sentinel, as text
RECURSIVE AfterSentinel(_)
AfterSentinel(ls) ==
  IF ls = <<>> THEN ""
  ELSE IF Head(ls) = "data: [DONE]" THEN JoinLines(Tail(ls))
  ELSE AfterSentinel(Tail(ls))

\* C13: the output of the normalizer is the concatenation, in order, of the
\* text of each data frame up to the first [DONE] sentinel; lines without the
\* "data: " prefix add nothing, and nothing after the sentinel is read or adds
\* text.  While the stream is read the output is a beginning of that text.
C13_NormalizerOutput ==
  LET expected == Header \o TextBefore(LinesOf(server.body))
  IN  /\ pc = "stream" => HasPrefix(expected, stdout)
      /\ pc \in {"done", "exit0"} =>
            /\ stdout = expected
            /\ resp.body = AfterSentinel(LinesOf(server.body))

\* C13 witness: He, llo and the sentinel have given Hello, and the frame
\* after the sentinel was left unread
C13_Witness ==
  /\ pc = "exit0"
  /\ TextBefore(LinesOf(server.body)) = "Hello"
  /\ stdout = Header \o "Hello"
  /\ resp.body = "data: {\"content\":\"c\"}\n"

(***************************************************************************)
(* C14: reasoning markup                                                   *)
(***************************************************************************)

Thinking == "data: {\"delta\":{\"thinking\":\"abc\"}}"
Text     == "data: {\"delta\":{\"text\":\"def\"}}"

\* The output for the frames ls when inrun tells whether thinking fragments
\* have been written since the last text fragment: the opening marker before
\* the first thinking fragment of a run, the closing marker before the first
\* text fragment after a run, no marker otherwise.  The empty fragment and
\* the frame cut short give nothing.
RECURSIVE Markup(_, _)
Markup(ls, inrun) ==
  IF ls = <<>> \/ Head(ls) = "data: [DONE]" THEN ""
  ELSE IF Head(ls) = Thinking
  THEN (IF inrun THEN "" ELSE "<think>\n") \o "abc" \o Markup(Tail(ls), TRUE)
  ELSE IF Head(ls) = Text
  THEN (IF inrun THEN "\n</think>\n\n" ELSE "") \o "def" \o Markup(Tail(ls), FALSE)
  ELSE Markup(Tail(ls), inrun)

\* C14: the opening marker <think>\n is written immediately before the first
\* non-empty thinking fragment of a run and before no later fragment of the
\* run; the closing marker \n</think>\n\n is written immediately before the
\* first non-empty text fragment after one or more thinking fragments; a text
\* fragment with no thinking before it has no marker.
C14_ReasoningMarkup ==
  LET expected == Header \o Markup(LinesOf(server.body), FALSE)
  IN  /\ pc = "stream" => HasPrefix(expected, stdout)
      /\ pc \in {"done", "exit0"} => stdout = expected

\* C14 witness: thinking abc, then text def twice
C14_Witness ==
  /\ pc = "exit0"
  /\ LinesOf(server.body) = <<Thinking, Text, Text>>
  /\ stdout = Header \o "<think>\nabc\n</think>\n\ndefdef"

(***************************************************************************)
(* C15: a frame that is not JSON                                           *)
(***************************************************************************)

Malformed == "data: {\"delta\":{\"thinking\":\"abc\""

\* the next line of the response body is the frame cut short
AtMalformed == pc = "stream" /\ resp.body # "" /\ ScanLine(resp.body).line = Malformed

\* ls without the frames cut short
RECURSIVE Wellformed(_)
Wellformed(ls) ==
  IF ls = <<>> THEN <<>>
  ELSE IF Head(ls) = Malformed THEN Wellformed(Tail(ls))
  ELSE <<Head(ls)>> \o Wellformed(Tail(ls))

\* reading the frame cut short goes on with the stream, writes nothing, leaves
\* the marker state as it was and counts one event
MalformedStep ==
  AtMalformed =>
     /\ pc' = "stream"
     /\ err' = err
     /\ stdout' = stdout
     /\ resp'.nthinking = resp.nthinking
     /\ resp'.nevents = resp.nevents + 1
     /\ resp'.body = ScanLine(resp.body).rest

\* the output at the end of the stream is that of the body without the frames
\* cut short
AsIfAbsent ==
  pc \in {"done", "exit0"} =>
     stdout = Header \o Markup(Wellformed(LinesOf(server.body)), FALSE)

\* C15: a data frame whose payload is not JSON is no error: it writes no
\* text, leaves the marker state unchanged, is counted as one event, and the
\* frames after it are handled as if it had been absent
C15_MalformedFrame == [][MalformedStep]_vars /\ []AsIfAbsent

\* C15 witness: a frame cut short between a thinking and a text fragment has
\* been read, and the markers are those of thinking followed by text
C15_Witness ==
  /\ pc = "exit0"
  /\ LinesOf(server.body) = <<Thinking, Malformed, Text>>
  /\ stdout = Header \o "<think>\nabc\n</think>\n\ndef"


(***************************************************************************)
(* C16: the status of the response                                         *)
(***************************************************************************)

\* t occurs in s
Contains(s, t) == \E i \in 1..(Len(s) - Len(t) + 1) : SubSeq(s, i, i + Len(t) - 1) = t

\* the decimal numeral of a status
Numeral == [c \in Statuses |->
              CASE c = 200 -> "200" [] c = 201 -> "201" [] c = 429 -> "429" [] c = 500 -> "500"]

\* the request went out and the response is known
Answered == Len(sent) > 0 /\ pc # "sent"

\* C16: success is exactly status 200: with any other status the run fails
\* with an error whose text holds the status code and the body of the
\* response, and nothing is written before the error block: no !assistant
\* header, no prepended text, no text of the stream
C16_StatusExactly200 ==
  Answered =>
     IF server.status = 200
     THEN pc \in {"stream", "done", "exit0"}
     ELSE /\ pc \in {"error", "exit1"}
          /\ Contains(err, Numeral[server.status])
          /\ Contains(err, server.body)
          /\ stdout = IF pc = "error" THEN "" ELSE "\n\n!error\n\n" \o err \o "\n"

\* C16 witness: status 429 with the body rate limited, for a document with a
\* text to prepend
C16_Witness ==
  /\ pc = "exit1"
  /\ server.status = 429 /\ server.body = "rate limited"
  /\ state.Prepend = "Sure"
  /\ err = "HTTP 429: rate limited"
  /\ stdout = "\n\n!error\n\nHTTP 429: rate limited\n"


(***************************************************************************)
(* C17: the dry run                                                        *)
(***************************************************************************)

\* a !debug directive of the lines ls is processed: in the document or in the
\* profile file conf/dry, before !end and before the failing directive
RECURSIVE DebugOn(_)
DebugOn(ls) ==
  IF ls = <<>> \/ Head(ls) \in {"!end", "!profile nowhere"} THEN FALSE
  ELSE IF Head(ls) \in {"!debug", "!profile conf/dry"} THEN TRUE
  ELSE DebugOn(Tail(ls))

\* the text holds the request: the method and the URL, every header, and at
\* the end the body
HoldsRequest(text) ==
  /\ HasPrefix(text, "\n\nPOST " \o api \o " HTTP/1.1\n")
  /\ \A k \in DOMAIN state.Headers : Contains(text, "\n" \o k \o ": " \o state.Headers[k] \o "\n")
  /\ HasSuffix(text, "\n\n" \o EncodeData(state.Data) \o "\n")

\* C17: if a !debug directive was processed, at any depth and anywhere before
\* !end, the assembled request (method, URL, every header, body) is written
\* to the output and no HTTP request is made; without !debug the request is
\* never written to the output and the assembled request is sent
C17_DebugDryRun ==
  IF DebugOn(LinesOf(txt))
  THEN /\ sent = <<>>
       /\ pc \notin {"sent", "stream", "done"}
       /\ pc = "exit0" => HoldsRequest(stdout)
  ELSE /\ ~state.Debug
       /\ ~Contains(stdout, "POST ")
       /\ pc = "exit0" => Len(sent) = 1

\* C17 witness: the dry run turned on by a profile file, with two headers
C17_Witness ==
  /\ txt = "!profile conf/dry\n!>x-a 1\nHello\n"
  /\ pc = "exit0"
  /\ sent = <<>>
  /\ HoldsRequest(stdout)
  /\ stdout = "\n\nPOST http://invalid./chat/completions HTTP/1.1\n"
               \o "x-a: 1\ncontent-type: application/json\n\n"
               \o "{\"max_tokens\":2000,\"messages\":[{\"role\":\"system\",\"content\":\"Hello\"}],"
               \o "\"stream\":true}\n\n"


(***************************************************************************)
(* C18: !begin                                                             *)
(***************************************************************************)

AtBegin == Reading /\ Branch(state, Line) = "begin"

\* C18: !begin discards every finalized message and the segment in progress
\* and leaves everything else unchanged: the URL, the mode, the body fields,
\* the hard-set markers, the headers, the debug and stats flags and the FIM
\* template keep the values the directives before it gave them
C18_Begin ==
  [][AtBegin =>
       /\ state'.Builder.Messages = <<>>
       /\ state'.Builder.Content = ""
       /\ \A f \in DOMAIN state \ {"Builder"} : state'[f] = state[f]
       /\ UNCHANGED <<api, strictapi, err, pc, stdout, sent, hist>>]_vars

\* C18 witness: !begin has just discarded a finalized message and a segment
\* in progress
C18_Witness ==
  /\ txt = "Hello\n!user\nHello\n!begin\n"
  /\ pc = "load" /\ stack # <<>> /\ Top.lines = ""
  /\ state.Builder.Messages = <<>> /\ state.Builder.Content = ""

(***************************************************************************)
(* C19: !end at the top level                                              *)
(***************************************************************************)

AtTopEnd == Reading /\ Top.depth = 0 /\ Branch(state, Line) = "end"

\* C19: !end at the top level stops interpretation at once: the state after
\* interpretation is the state reached just before !end, and no line after it
\* is read, whatever the remaining text
C19_TopLevelEnd ==
  /\ [][AtTopEnd => /\ state' = state
                     /\ stack' = <<>>
                     /\ UNCHANGED <<api, strictapi, err, pc, stdout, sent, hist>>]_vars
  /\ [][stack = <<>> => \A i \in DOMAIN stack' : stack'[i].depth > 0]_vars

\* C19 witness: interpretation has ended at an !end with a directive and a
\* line of content after it, and neither has left a trace
C19_Witness ==
  /\ txt = "Hello\n!end\n!:k v\nHello\n"
  /\ pc = "dispatch"
  /\ "k" \notin DOMAIN state.Data
  /\ state.Data["messages"].val = <<Message("system", "Hello")>>


(***************************************************************************)
(* C20: the escape                                                         *)
(***************************************************************************)

\* the next line begins with two markers
AtEscaped == Reading /\ HasPrefix(Line, "!!")

\* the line is appended to the segment in progress with one marker removed,
\* the loop goes on with the next line, and nothing else changes
Appended ==
  /\ state' = [state EXCEPT !.Builder.Content = @ \o From(Line, 2) \o "\n"]
  /\ stack' = Advance(stack)
  /\ UNCHANGED <<api, strictapi, err, pc, stdout, sent, hist>>

\* the line lies in a region that !exclude removes
Excluded == Len(state.Exclude) > 0 /\ state.Excluding

\* C20 as stated: a line beginning with !! is never executed as a directive,
\* whatever follows the two markers; it is appended to the segment in
\* progress with exactly one leading ! removed, and nothing else changes
C20_Escape == [][AtEscaped => Appended]_vars

\* C20, amended: a line beginning with !! is never executed as a directive;
\* outside a region that !exclude removes it is appended to the segment in
\* progress with exactly one leading ! removed and nothing else changes;
\* inside such a region it is dropped like every other line
C20_EscapeUnlessExcluded ==
  [][AtEscaped =>
       IF Excluded
       THEN /\ state' = state
            /\ stack' = Advance(stack)
            /\ UNCHANGED <<api, strictapi, err, pc, stdout, sent, hist>>
       ELSE Appended]_vars

\* C20 witness: !!end between two lines of content is content
C20_Witness ==
  /\ txt = "Hello\n!!end\nHello\n"
  /\ pc = "dispatch"
  /\ state.Data["messages"].val = <<Message("system", "Hello\n!end\nHello")>>


(***************************************************************************)
(* C21: !:KEY never fails                                                  *)
(***************************************************************************)

\* what the body mapping holds for the key once the directive has taken
\* effect: nothing after an empty argument, the parsed value after JSON, the
\* trimmed text otherwise
Stored(args) ==
  IF args = "" THEN <<>>
  ELSE IF JsonValid(args) THEN <<JsonValue(args)>>
  ELSE <<GoString(args)>>

\* interpretation goes on with the next line of the same text
NextLine ==
  /\ stack' = Advance(stack)
  /\ UNCHANGED <<pc, err, stdout, sent>>

\* C21 as stated: a !:KEY directive never fails: after an empty argument the
\* key is absent from the body mapping, after an argument that parses as JSON
\* the parsed value is stored, after any other the trimmed text is stored as a
\* string, and interpretation goes on with the next line
C21_BodyDirective ==
  [][AtBody => /\ BodyAt(state', BodyKey) = Stored(BodyArgs)
               /\ NextLine]_vars

\* C21, amended: a !:KEY directive never fails and interpretation goes on
\* with the next line; it stores as stated unless it is read at depth > 0 for
\* a key a depth-0 directive has written, where it changes nothing
C21_BodyDirectiveUnlessProtected ==
  [][AtBody =>
       /\ BodyAt(state', BodyKey) =
             IF Top.depth > 0 /\ BodyKey \in hist.keys
             THEN BodyAt(state, BodyKey) ELSE Stored(BodyArgs)
       /\ NextLine]_vars

\* C21 witness: a number stored and then deleted, a text stored as a string
C21_Witness ==
  /\ txt = "!:max_tokens 5\n!:model m1\n!:max_tokens\n"
  /\ pc = "load" /\ stack # <<>> /\ Top.lines = ""
  /\ BodyAt(state, "model") = <<GoString("m1")>>
  /\ BodyAt(state, "max_tokens") = <<>>


(***************************************************************************)
(* C22: headers                                                            *)
(***************************************************************************)

HeaderAt(s, k) == IF k \in DOMAIN s.Headers THEN <<s.Headers[k]>> ELSE <<>>

\* a !>KEY directive is the line Load reads next
AtHeader == Reading /\ Branch(state, Line) = "header"

HeaderKey == From(cut(Line, " ").pre, 3)

\* the value a !>KEY directive gives, the variables of the environment
\* replaced
HeaderValue ==
  LET args == TrimSpace(cut(Line, " ").post)
  IN  IF args = "Bearer $OPENAI_API_KEY" THEN "Bearer sk-1" ELSE args

\* C22: headers are last write wins with no depth protection: every !>KEY
\* directive, at any depth, gives its value to exactly the key it names, or
\* removes the key when its value is empty, and nothing else changes a
\* header; so a profile, the default profile included, overrides a value
\* the document set
C22_HeadersLastWrite ==
  /\ [][AtHeader =>
          /\ HeaderAt(state', HeaderKey) =
                IF HeaderValue = "" THEN <<>> ELSE <<HeaderValue>>
          /\ \A k \in (DOMAIN state.Headers \cup DOMAIN state'.Headers) \ {HeaderKey} :
                HeaderAt(state', k) = HeaderAt(state, k)]_vars
  /\ [][~AtHeader => state'.Headers = state.Headers]_vars

\* C22 witness: the default profile has replaced the authorization header of
\* the document, and x-a and X-A are two headers
C22_Witness ==
  /\ txt = "!>authorization mine\n!>x-a 1\n!>X-A 2\n"
  /\ pc = "dispatch"
  /\ HeaderAt(state, "authorization") = <<"Bearer sk-1">>
  /\ HeaderAt(state, "x-a") = <<"1">>
  /\ HeaderAt(state, "X-A") = <<"2">>


(***************************************************************************)
(* C23: the template of infill mode                                        *)
(***************************************************************************)

Template == "!infill <P>{prefix}<S>{suffix}"

\* a template is given in the processed input: in the document, or in the
\* profile fim:qwen loaded as the default
TemplateGiven ==
  \/ \E i \in DOMAIN LinesOf(txt) : LinesOf(txt)[i] = Template
  \/ Getenv("ILLUME_PROFILE") = "fim:qwen"

\* the variables of the template: the first finalized message is the prefix,
\* the second one the suffix
Around ==
  LET parts == state.Builder.Messages
  IN  [k \in {"prefix", "suffix"} |->
         IF k = "prefix" THEN GoString(parts[1].Content \o "\n")
         ELSE GoString(IF Len(parts) > 1 THEN "\n" \o parts[2].Content ELSE "")]

\* C23: whenever infill mode is active and an !infill TEMPLATE was given
\* anywhere in the processed input, the document or a loaded profile, the
\* default one included, the prompt of the request is that template with
\* {prefix} and {suffix} replaced by the surrounding input
C23_TemplatePrompt ==
  (pc = "dispatch" /\ Mode \in {"infill", "fim"} /\ TemplateGiven) =>
     /\ state.FimTmpl # ""
     /\ BodyAt(state, "prompt") = <<GoString(Expand(state.FimTmpl, Around).out)>>


(***************************************************************************)
(* C26: when the fill-in-middle mode is decided                            *)
(***************************************************************************)

\* the document has been interpreted to its end
Interpreted == pc \notin {"error", "exit1"} /\ ~(pc = "load" /\ stack # <<>>)

TypeOf(mode) ==
  CASE mode = "chat"       -> TypeChat
    [] mode = "completion" -> TypeCompletion
    [] mode = "infill"     -> TypeInfill
    [] mode = "fim"        -> TypeFim

\* an !infill TEMPLATE line is the line Load reads next
AtTemplate == Reading /\ Branch(state, Line) = "infill" /\ cut(Line, " ").post # ""

RECURSIVE ContentOf(_)
ContentOf(ls) ==
  IF ls = <<>> THEN ""
  ELSE IF Head(ls) \notin {"A", "B"} THEN ContentOf(Tail(ls))
  ELSE IF ContentOf(Tail(ls)) = "" THEN Head(ls)
  ELSE Head(ls) \o "\n" \o ContentOf(Tail(ls))

\* the positions of the no-argument !infill lines of the document
Markers == {i \in DOMAIN LinesOf(txt) : LinesOf(txt)[i] = "!infill"}

\* the content before and after the one marker
Before == ContentOf(SubSeq(LinesOf(txt), 1, (CHOOSE i \in Markers : TRUE) - 1))
After  == ContentOf(SubSeq(LinesOf(txt), (CHOOSE i \in Markers : TRUE) + 1, Len(LinesOf(txt))))

\* prefix and suffix as the request gives them for the content around the
\* marker
Surrounding ==
  [k \in {"prefix", "suffix"} |->
     IF k = "prefix" THEN GoString(Before \o "\n")
     ELSE GoString(IF After = "" THEN "" ELSE "\n" \o After)]

Failed == pc \in {"error", "exit1"}

ContextMsg == "!context: wrong number of fields"

\* the errors of the interpolator
InterpolationError(e) == Contains(e, "unmatched '}'") \/ Contains(e, "missing key: ")

ParseError(e) == InterpolationError(e) \/ Contains(e, ContextMsg)

\* e starts with the name of the document and the number of one of its lines
Located(e) ==
  \E i \in 1..Len(LinesOf(txt)) : HasPrefix(e, "<stdin>:" \o Itoa(i) \o ": ")

\* line i of the document is the first that fails on its own
FirstFailing(i) ==
  /\ LinesOf(txt)[i] \in {"!context", "!profile nowhere"}
  /\ \A j \in 1..(i - 1) : LinesOf(txt)[j] \notin {"!context", "!profile nowhere"}

\* C24 as stated: every parse error (unmatched interpolation brace, missing
\* interpolation key, wrong !context argument count) is reported with the
\* document name and the line number where it arose
C24_ParseErrorsLocated == Failed /\ ParseError(err) => Located(err)

\* C24: a wrong !context argument count is reported with the name of the
\* document and the number of the line of the directive; an error of the
\* interpolator is reported without a location, as "interpolating URL: e" or
\* as "!infill: e"; all of them are fatal, and no request goes out
C24_ContextErrorsLocated ==
  /\ [](Failed /\ Contains(err, ContextMsg) =>
          \E i \in 1..Len(LinesOf(txt)) :
             /\ FirstFailing(i)
             /\ LinesOf(txt)[i] = "!context"
             /\ err = "<stdin>:" \o Itoa(i) \o ": " \o ContextMsg)
  /\ [](Failed /\ InterpolationError(err) =>
          \E e \in {"unmatched '}'", "missing key: nokey"} :
             err \in {"interpolating URL: " \o e, "!infill: " \o e})
  /\ [](ParseError(err) => Failed /\ sent = <<>>)
  /\ [][ParseError(err) => pc' = "exit1"]_vars

C24_Witness ==
  /\ txt = "Hello\n!context\n"
  /\ pc = "exit1"
  /\ err = "<stdin>:2: !context: wrong number of fields"

\* the failures of the server side: transport, status, stream
ServerFailure(e) ==
  \/ HasPrefix(e, "Post \"")
  \/ HasPrefix(e, "HTTP ")
  \/ e = Broken.readerr

\* the run cannot succeed: a line fails, the URL is one of the templates or
\* the URL no request can be built for, or the server fails
Failing ==
  \/ \E i \in 1..Len(LinesOf(txt)) :
        \/ FirstFailing(i)
        \/ HasPrefix(LinesOf(txt)[i], "!api ")
  \/ server # DefaultServer

\* C25: every fatal failure (of a directive, of a profile, of the
\* interpolator, of the construction of the request, of the transport, a
\* status other than 200, a read error of the stream) ends the same way: the
\* !error block with the text of the error is written and the process exits
\* with status 1; a run that cannot succeed never exits with 0; a failure
\* before the dispatch sends no request
C25_FatalFailures ==
  /\ [](pc = "exit1" => err # "" /\ HasSuffix(stdout, "\n\n!error\n\n" \o err \o "\n"))
  /\ [](pc = "exit0" => ~Failing /\ err = "")
  /\ [](Failed /\ ~ServerFailure(err) => sent = <<>>)
  /\ [](Failed /\ ServerFailure(err) => Len(sent) = 1 /\ server # DefaultServer)
  /\ [][pc = "error" => pc' = "exit1" /\ err' = err /\ sent' = sent]_vars
  /\ [][err' # err => pc' = "error"]_vars

C25_Witness ==
  /\ txt = "!api http://h/\tx\n"
  /\ pc = "exit1"
  /\ sent = <<>>
  /\ stdout = "\n\n!error\n\nparse \"http://h/\\tx/chat/completions\": net/url: invalid control character in URL\n"


(***************************************************************************)
(* C28: the tool role                                                      *)
(***************************************************************************)

\* the messages finalized so far
Finalized == state.Builder.Messages

\* the loop of Load is at a !tool line of the revision that has the role
AtTool == Reading /\ revision = "tool" /\ Branch(state, Line) = "tool"

\* C28: in the revision with the tool role, and with no !begin in the
\* documents, every tool message of the list comes right after an assistant
\* message with empty content, and its content begins with <tool_response>
\* and ends with </tool_response>; a !tool line always adds the empty
\* assistant message as the last of the list, after the message of the
\* segment before it when that segment has content, and opens the marker
C28_ToolRole ==
  /\ [](revision = "tool" =>
          \A i \in DOMAIN Finalized :
             Finalized[i].Role = "tool" =>
               /\ i > 1
               /\ Finalized[i - 1] = Message("assistant", "")
               /\ HasPrefix(Finalized[i].Content, "<tool_response>")
               /\ HasSuffix(Finalized[i].Content, "</tool_response>"))
  /\ [][AtTool =>
          /\ Len(Finalized') \in {Len(Finalized) + 1, Len(Finalized) + 2}
          /\ Finalized'[Len(Finalized')] = Message("assistant", "")
          /\ (Trim(state.Builder.Content, {"\r", "\n"}) = ""
                => Finalized' = Append(Finalized, Message("assistant", "")))
          /\ state'.Builder.Role = "tool"
          /\ state'.Builder.Content = "<tool_response>\n"]_vars

\* C28 witness: two entries into the tool role, the first from an empty
\* system segment, the second from a tool segment
C28_Witness ==
  /\ revision = "tool"
  /\ txt = "!tool\nHello\n!tool\n!user\n"
  /\ Assembled
  /\ Finalized = << Message("assistant", ""),
                    Message("tool", "<tool_response>\nHello\n</tool_response>"),
                    Message("assistant", ""),
                    Message("tool", "<tool_response>\n</tool_response>") >>


(***************************************************************************)
(* C29: finalized messages                                                 *)
(***************************************************************************)

\* p is a prefix of q
IsPrefix(p, q) == Len(p) <= Len(q) /\ SubSeq(q, 1, Len(p)) = p

\* the loop of Load is at a line of content
AtContent == Reading /\ Branch(state, Line) = "content"

\* C29: whatever step the run takes other than !begin, the list of finalized
\* messages before it is a prefix of the list after it; a line of content
\* leaves the list as it is and is appended, with a line feed, to the segment
\* in progress
C29_FinalizedImmutable ==
  /\ [][~AtBegin => IsPrefix(Finalized, Finalized')]_vars
  /\ [][AtContent =>
          /\ Finalized' = Finalized
          /\ state'.Builder.Role = state.Builder.Role
          /\ state'.Builder.Content = state.Builder.Content \o Line \o "\n"]_vars

\* C29 witness: two messages are finalized, the first before the second
\* segment is read
C29_Witness ==
  /\ txt = "Hello\n!user\nHello\n"
  /\ Assembled
  /\ Finalized = <<Message("system", "Hello"), Message("user", "Hello")>>


(***************************************************************************)
(* C30: one pass over the template                                         *)
(***************************************************************************)

\* The template read character by character from position i, out being the
\* text written so far: a character other than "{" is copied, a "}" among
\* them; a "{" opens a span that ends at the first "}" after it, the text
\* between the two is the key, the value of the key is written and the
\* reading goes on after the "}"; the first span that has no "}" or no value
\* ends the reading with its error
RECURSIVE Pass(_, _, _, _)
Pass(s, i, out, m) ==
  LET J   == {j \in (i + 1)..Len(s) : At(s, j) = "}"}
      j   == CHOOSE k \in J : \A l \in J : k <= l
      key == SubSeq(s, i + 1, j - 1)
  IN  IF i > Len(s) THEN [out |-> out, err |-> ""]
      ELSE IF At(s, i) # "{" THEN Pass(s, i + 1, out \o At(s, i), m)
      ELSE IF J = {} THEN [out |-> "", err |-> "unmatched '}'"]
      ELSE IF key \notin DOMAIN m THEN [out |-> "", err |-> "missing key: " \o key]
      ELSE Pass(s, j + 1,
                out \o (IF m[key].kind = "string" THEN m[key].val
                        ELSE marshal(m[key])),
                m)

\* query is about to interpolate the URL
AtInterpolate == pc = "default" /\ stack = <<>>

\* C30: the URL that query goes on with is the template read in one pass from
\* left to right: a key ends at the first "}" after its "{", the value of a
\* key is written as it is and not read again, a "}" outside a span is
\* copied, and the error reported is that of the first span that fails
C30_SinglePass ==
  [][AtInterpolate =>
       IF Pass(state.Api, 1, "", state.Data).err # ""
       THEN /\ pc' = "error"
            /\ err' = "interpolating URL: " \o Pass(state.Api, 1, "", state.Data).err
       ELSE /\ pc' = "assemble"
            /\ api' = WithSlash(Pass(state.Api, 1, "", state.Data).out)]_vars

\* C30 witness: the template starts with a "}", and the value of a holds the
\* span of another key; both are written as they are
C30_Witness ==
  /\ txt = "!:a {b}\n!:b y\n!api }x{a}\n"
  /\ pc = "assemble"
  /\ api = "}x{b}/"


(***************************************************************************)
(* C31: the text a value is inserted as                                    *)
(***************************************************************************)

\* the JSON encoding of a value that is not a string, the text of a string
TextOf(v) == v.val

\* C31: the text inserted in place of {n} is the JSON encoding of the value
\* of n when the value is a number, a boolean, null, an array or an object,
\* with no character before or after it, and the text of the value without
\* quotes when the value is a string
C31_InsertedText ==
  (pc = "assemble" /\ state.Api = "http://h/{n}/x") =>
     api = "http://h/" \o TextOf(state.Data["n"]) \o "/x/"


(***************************************************************************)
(* C32: the markers at the end of the stream                               *)
(***************************************************************************)

\* the number of places where t occurs in s
Count(s, t) ==
  Cardinality({i \in 1..(Len(s) - Len(t) + 1) : SubSeq(s, i, i + Len(t) - 1) = t})

Opened == Count(stdout, "<think>\n")

Closed32 == Count(stdout, "\n</think>\n\n")

\* C32: in the output the opening and the closing marker alternate, the
\* opening marker first, and when the stream has been read to its end, by the
\* sentinel or by the end of the input, every reasoning segment that was
\* opened has been closed
C32_MarkupClosed ==
  /\ Opened - Closed32 \in {0, 1}
  /\ pc \in {"done", "exit0"} => Opened = Closed32


(***************************************************************************)
(* C33: incremental output                                                 *)
(***************************************************************************)

\* the lines of the response body the stream loop has read so far
Read ==
  SubSeq(LinesOf(server.body), 1, Len(LinesOf(server.body)) - Len(LinesOf(resp.body)))

\* C33: between two frames, standard output holds the !assistant header and
\* all the text and markers of the frames read so far, and the buffer of the
\* writer holds nothing: the text of a frame is on the output before the next
\* frame is read, the header before the first frame is read
C33_Incremental ==
  pc = "stream" =>
    /\ stdout = Header \o Markup(Read, FALSE)
    /\ resp.w = ""

\* C33 witness: the first of two frames has been read and its text, with the
\* marker, is on the output while the second is still to come
C33_Witness ==
  /\ pc = "stream"
  /\ Read = <<Thinking>>
  /\ LinesOf(resp.body) = <<Text>>
  /\ stdout = Header \o "<think>\nabc"


(***************************************************************************)
(* C35: the response body                                                  *)
(***************************************************************************)

\* client.Do has returned a response
Obtained == Len(sent) > 0 /\ pc # "sent" /\ server.status # 0

\* query has returned
Returned == pc \in {"exit0", "error", "exit1"}

\* C35: once a response has been obtained, its body has been closed when
\* query has returned, whichever way it returned: with the error of a status
\* other than 200, after the sentinel, after the end of the stream, or with
\* the read error of the stream; and the body is open while the stream is read
C35_BodyReleased ==
  /\ Obtained /\ Returned => ~resp.open
  /\ pc \in {"stream", "done"} => resp.open

\* C35 witness: the stream broke after its first event and the body is closed
C35_Witness ==
  /\ server = Broken
  /\ pc = "exit1"
  /\ err = "unexpected EOF"
  /\ resp.nevents = 1
  /\ ~resp.open

\* the four ways out: the status, the sentinel with text after it, the end of
\* the stream, the read error
ByStatus   == Obtained /\ Returned /\ server = Refusal /\ ~resp.open
BySentinel == Obtained /\ Returned /\ server = Overlong /\ resp.body # "" /\ ~resp.open
ByEnd      == Obtained /\ Returned /\ server = Unfinished /\ ~resp.open


(***************************************************************************)
(* C34: where a failing line is reported                                   *)
(***************************************************************************)

\* The error of each failing line of the documents as it leaves the Load that
\* read the line, before that Load adds its own location: the profile
\* conf/bad fails at its sixth line, after a line of !exclude, three
\* excluded lines and a blank line; conf/outer includes conf/bad on its
\* second line.
Inner ==
  [l \in {"!context", "!profile nowhere", "!profile conf/bad", "!profile conf/outer"} |->
     CASE l = "!context"            -> ContextMsg
       [] l = "!profile nowhere"    -> "open nowhere: no such file or directory"
       [] l = "!profile conf/bad"   -> "conf/bad:6: " \o ContextMsg
       [] l = "!profile conf/outer" -> "conf/outer:2: conf/bad:6: " \o ContextMsg]

\* the lines of the document before its first failing line, all of them when
\* none fails
RECURSIVE Sound(_)
Sound(ls) ==
  IF ls = <<>> \/ Head(ls) \in DOMAIN Inner THEN <<>> ELSE <<Head(ls)>> \o Sound(Tail(ls))

FailsAt == Len(Sound(LinesOf(txt))) + 1

\* C34: a failing !profile or !context line stops interpretation at that
\* line: the run fails exactly when the document has such a line, the error
\* names every document on the way in from the outermost to the innermost,
\* each with the 1-based number of its directive line (blank and excluded
\* lines counted), and no line after the failing one has any effect: the
\* body field of a later line is not set, the fields the profiles set after
\* their failing lines are not there, the content is that of the lines before
\* the failing one (with the blank line conf/bad has before its own), and the
\* state stays as it is
C34_FailingLine ==
  /\ [](Failed => FailsAt <= Len(LinesOf(txt)))
  /\ [](pc \notin {"load", "error", "exit1"} => FailsAt > Len(LinesOf(txt)))
  /\ [](Failed =>
          /\ err = "<stdin>:" \o Itoa(FailsAt) \o ": " \o Inner[LinesOf(txt)[FailsAt]]
          /\ BodyAt(state, "seed") \in
               {<<>>, <<JsonValue("1")>>, <<JsonValue("9")>>}
          /\ (BodyAt(state, "seed") = <<JsonValue("9")>>
                => \E i \in 1..(FailsAt - 1) : LinesOf(txt)[i] = "!:seed 9")
          /\ state.Builder.Content =
                JoinLines(SelectSeq(Sound(LinesOf(txt)), LAMBDA l : l \in {"Hello", ""}))
                \o (IF LinesOf(txt)[FailsAt] \in {"!profile conf/bad", "!profile conf/outer"}
                    THEN "\n" ELSE ""))
  /\ [][Failed => state' = state /\ stack' = stack]_vars

\* C34 witness: two levels of profiles under the second line of the document
C34_Witness ==
  /\ txt = "Hello\n!profile conf/outer\n!:seed 9\n"
  /\ pc = "exit1"
  /\ err = "<stdin>:2: conf/outer:2: conf/bad:6: !context: wrong number of fields"
  /\ BodyAt(state, "seed") = <<JsonValue("1")>>


(***************************************************************************)
(* C36: termination of the interpretation                                  *)
(***************************************************************************)

\* the profile files that include themselves, directly or through another
Loops == {"!profile conf/loop", "!profile conf/ping"}

\* the interpretation of the document gets to a profile that includes itself
Cyclic ==
  \E i \in 1..Len(LinesOf(txt)) :
     /\ LinesOf(txt)[i] \in Loops
     /\ \A j \in 1..(i - 1) : LinesOf(txt)[j] \notin Loops \cup {"!profile nowhere"}

\* the interpretation is over: of the document and of the default profile
Over == pc \notin {"load", "overflow"} /\ stack = <<>>

\* the step is that of a !profile line whose profile exists
AtInclude ==
  /\ Reading
  /\ Branch(state, Line) = "profile"
  /\ ProfileBody(TrimSpace(cut(Line, " ").post)).err = ""

\* C36: the interpretation of a document whose profiles do not include
\* themselves comes to an end, that of every built-in profile among them, and
\* every !profile adds one call of Load, one level deeper than the call that
\* read the line; a profile that includes itself, directly or through
\* another, is loaded again and again, as deep as the stack of the process
\* lets it, and the interpretation never comes to an end
C36_Termination ==
  /\ ~Cyclic ~> Over
  /\ [](Cyclic => ~Over /\ err = "")
  /\ Cyclic ~> (Len(stack) = MaxDepth /\ pc = "overflow")
  /\ [][AtInclude /\ pc' # "overflow" =>
          /\ Len(stack') = Len(stack) + 1
          /\ stack'[Len(stack')].depth = Top.depth + 1]_vars
  /\ [][Len(stack') > Len(stack) /\ stack # <<>> => AtInclude]_vars

\* C36 witness: two profiles that include each other have filled the stack
C36_Witness ==
  /\ txt = "Hello\n!profile conf/ping\n"
  /\ pc = "overflow"
  /\ Len(stack) = MaxDepth
  /\ Top.name \in {"conf/ping", "conf/pong"}


(***************************************************************************)
(* C37: deletions and the hard-set marker                                  *)
(***************************************************************************)

\* the !:KEY lines of the document for the key k, in order
TopLines(k) == SelectSeq(LinesOf(txt), LAMBDA l : cut(l, " ").pre = "!:" \o k)

\* the last of them
LastTop(k) == TopLines(k)[Len(TopLines(k))]

\* the document and the default profile have been interpreted
Loaded == pc \in {"assemble", "dispatch", "sent", "stream", "done", "exit0"}

\* C37: a deletion at depth 0 is protected like a value set at depth 0: when
\* the last !:max_tokens line of the document has no value, max_tokens is not
\* in the body whatever the profiles loaded before or after it hold; when it
\* has the value 5, the body holds 5 although the profile openai deletes the
\* key; and at a !:KEY line of a profile for a key the document has written,
\* the body and the markers stay as they are
C37_DeletionProtected ==
  /\ [](Loaded /\ TopLines("max_tokens") # <<>> =>
          BodyAt(state, "max_tokens") =
            IF LastTop("max_tokens") = "!:max_tokens" THEN <<>>
            ELSE <<JsonValue("5")>>)
  /\ [][AtBody /\ Top.depth > 0 /\ BodyKey \in hist.keys =>
          state'.Data = state.Data /\ state'.UserSet = state.UserSet]_vars

\* C37 witness: the document deleted max_tokens, then the profiles claude and
\* claude-extended, each with a value for it, were loaded
C37_Witness ==
  /\ txt = "!:max_tokens\n!profile claude-extended\n"
  /\ hist.profiles = <<"claude-extended", "claude">>
  /\ Loaded
  /\ "max_tokens" \notin DOMAIN state.Data


(***************************************************************************)
(* C38: a document without content                                         *)
(***************************************************************************)

\* no line of the document is content, and none fails
NoContent == \A i \in 1..Len(LinesOf(txt)) : LinesOf(txt)[i] \notin {"A", "B", "!profile nowhere"}

\* query is past the switch on the mode
Switched == pc \notin {"load", "default", "assemble"}

\* C38: with no content segment, chat mode goes on with a request whose
\* messages are the empty list, while raw completion, generic infill and
\* template FIM crash at the first element of the empty list: no request is
\* sent, nothing is written, no !error block follows and the run takes no
\* further step
C38_NoContent ==
  /\ [](NoContent /\ Switched =>
          IF state.Type = TypeChat
          THEN /\ pc # "panic"
               /\ state.Data["messages"].val = <<>>
               /\ Len(sent) > 0 => sent[1].body["messages"].val = <<>>
          ELSE /\ state.Type \in {TypeCompletion, TypeInfill, TypeFim}
               /\ pc = "panic"
               /\ sent = <<>>
               /\ stdout = ""
               /\ err = "")
  /\ [][pc = "panic" => FALSE]_vars

\* C38 witness: template FIM with nothing around the marker
C38_Witness ==
  /\ txt = "!infill <P>{prefix}<S>{suffix}\n!infill\n"
  /\ state.Type = TypeFim
  /\ pc = "panic"
  /\ sent = <<>>


(***************************************************************************)
(* C39: excluded regions                                                   *)
(***************************************************************************)

OpenTag == "<" \o state.Exclude \o ">"

CloseTag == "</" \o state.Exclude \o ">"

\* the line Load reads next belongs to an excluded region: it lies in one, or
\* it is the opening tag
InRegion == Reading /\ state.Exclude # "" /\ (state.Excluding \/ Line = OpenTag)

\* C39: once a tag is named, every line from the opening tag to the closing
\* tag, both included, changes nothing but the excluding flag, which is set
\* by every such line but the closing tag: the line is not content, and
\* !end, !begin, !profile and !! on it do nothing; the flag is kept when a
\* profile returns and when one is loaded, so a region left open suppresses
\* the lines after it, those of the including document and those of the
\* default profile, which then leaves the URL and the body as they were
C39_Exclusion ==
  /\ [][InRegion =>
          /\ state' = [state EXCEPT !.Excluding = (Line # CloseTag)]
          /\ stack' = Advance(stack)
          /\ UNCHANGED <<pc, err, api, strictapi, sent, stdout, hist>>]_vars
  /\ [][~Reading => state'.Excluding = state.Excluding /\ state'.Exclude = state.Exclude]_vars
  /\ [](Loaded /\ state.Excluding /\ state.Profile = DefaultProfile =>
          /\ state.Api = InvalidUrl
          /\ DOMAIN state.Data \subseteq {"max_tokens", "seed", "messages", "stream"})

\* C39 witness: the document names a tag and opens a region it never closes;
\* its !end inside the region did not end it, the default profile was loaded
\* after it, and none of the profile's lines took effect
C39_Witness ==
  /\ txt = "!exclude t\n<t>\n!end\n"
  /\ Loaded
  /\ state.Excluding
  /\ state.Profile = DefaultProfile
  /\ state.Api = InvalidUrl
  /\ BodyAt(state, "cache_prompt") = <<>>


(***************************************************************************)
(* C40: !end inside a profile                                              *)
(***************************************************************************)

\* the innermost Load is that of a profile and reads an !end directive
AtProfileEnd == Reading /\ Top.depth > 0 /\ Branch(state, Line) = "end"

\* the document has been read to its end or to its !end, and query has not
\* looked at the profile yet
AfterDocument == pc = "load" /\ stack = <<>>

\* C40: !end in a profile ends the interpretation of that profile only: the
\* state is left as the lines before the !end made it, the Load that included
\* the profile goes on with the line after its !profile, and what follows the
\* !end in the profile never takes effect; after the document, ended by a
\* top-level !end or not, the default profile is loaded when no profile was
\* loaded, and then it is applied in full
C40_ProfileEnd ==
  /\ [][AtProfileEnd =>
          /\ state' = state
          /\ Len(stack') = Len(stack) - 1
          /\ stack' = Return(stack)
          /\ Len(stack) > 1 =>
               /\ Top'.name = stack[Len(stack) - 1].name
               /\ Top'.lineno = stack[Len(stack) - 1].lineno + 1
          /\ UNCHANGED <<pc, err, stdout>>]_vars
  /\ [](BodyAt(state, "model") # <<[kind |-> "string", val |-> "m3"]>>)
  /\ [](Loaded /\ state.Profile = "site" =>
          /\ state.Api = "http://site/v1"
          /\ BodyAt(state, "model") = <<[kind |-> "string", val |-> "m2"]>>)
  /\ [][AtTopEnd => pc' = "load" /\ stack' = <<>> /\ state' = state]_vars
  /\ [][AfterDocument /\ state.Profile = "" =>
          /\ state'.Profile = DefaultProfile
          /\ stack' = <<Frame(DefaultProfile, ProfileBody(DefaultProfile).data, 2)>>]_vars
  /\ [](Loaded /\ state.Profile = DefaultProfile =>
          /\ state.Api = "http://localhost:8080/"
          /\ BodyAt(state, "cache_prompt") = <<[kind |-> "bool", val |-> "true"]>>)
  /\ [](Loaded /\ cut(txt, "\n").pre = "!end" => state.Profile = DefaultProfile)

\* C40 witness: the profile site ended at its !end with the model m2, the
\* document went on with the content after its !profile line and ended at
\* its own !end
C40_Witness ==
  /\ txt = "!profile site\nHello\n!end\n!user\n"
  /\ Loaded
  /\ state.Profile = "site"
  /\ BodyAt(state, "model") = <<[kind |-> "string", val |-> "m2"]>>
  /\ BodyAt(state, "messages") = <<[kind |-> "messages", val |-> <<Message("system", "Hello")>>]>>

=========================================================================
